---- MODULE Spec2Model ----
(***************************************************************************)
(* Model of the fast-sttext audiobook generator: the text segmentation     *)
(* engine (src/src/text_processor.py, src/src/config.py) and the audio     *)
(* assembly engine (src/src/audio_processor.py).                           *)
(*                                                                         *)
(* Python str values are TLA+ strings; a character is a string of length   *)
(* one, read with Ch(s, i).  Regular-expression substitutions are written  *)
(* as left-to-right scans that make the same leftmost, non-overlapping     *)
(* matches as re.sub.                                                      *)
(***************************************************************************)
EXTENDS Integers, Sequences, FiniteSets, TLC

(***************************************************************************)
(* Characters and character classes of Python's re module                  *)
(***************************************************************************)
Ch(s, i) == SubSeq(s, i, i)

UpperAZ == {"A", "B", "C", "D", "E", "F", "G", "H", "I", "J", "K", "L", "M",
            "N", "O", "P", "Q", "R", "S", "T", "U", "V", "W", "X", "Y", "Z"}

LowerAZ == {"a", "b", "c", "d", "e", "f", "g", "h", "i", "j", "k", "l", "m",
            "n", "o", "p", "q", "r", "s", "t", "u", "v", "w", "x", "y", "z"}

Digits == {"0", "1", "2", "3", "4", "5", "6", "7", "8", "9"}

\* non-ASCII letters that occur in the program's own strings
AccentedLetters == {"í", "Í", "ç", "ã"}

\* \s
IsSpace(c) == c \in {" ", "\n", "\t"}

\* [.!?]
IsTerminator(c) == c \in {".", "!", "?"}

\* \d
IsDigit(c) == c \in Digits

\* \w
IsWordChar(c) == c \in UpperAZ \cup LowerAZ \cup Digits \cup AccentedLetters \cup {"_"}

UpperString == "ABCDEFGHIJKLMNOPQRSTUVWXYZ"

LowerString == "abcdefghijklmnopqrstuvwxyz"

\* case folding of one character, as re.IGNORECASE compares
LowerCh(c) ==
    IF c \in UpperAZ
    THEN Ch(LowerString, CHOOSE i \in 1..26 : Ch(UpperString, i) = c)
    ELSE IF c = "Í" THEN "í" ELSE c

RECURSIVE LowerFrom(_, _)
LowerFrom(s, i) ==
    IF i > Len(s) THEN "" ELSE LowerCh(Ch(s, i)) \o LowerFrom(s, i + 1)

LowerStr(s) == LowerFrom(s, 1)

\* len(s.encode("utf-8")) of one character
Utf8Len(c) == IF c \in AccentedLetters THEN 2 ELSE 1

\* Sums over the positions of a string are computed by halving the range,
\* so that long strings need no deep recursion.
RECURSIVE Utf8Between(_, _, _)
Utf8Between(s, lo, hi) ==
    IF lo > hi THEN 0
    ELSE IF lo = hi THEN Utf8Len(Ch(s, lo))
         ELSE LET mid == (lo + hi) \div 2
              IN  Utf8Between(s, lo, mid) + Utf8Between(s, mid + 1, hi)

\* the encoded size of s from index i on
Utf8Bytes(s, i) == Utf8Between(s, i, Len(s))

(***************************************************************************)
(* str.strip, str.split("\n"), " ".join                                    *)
(***************************************************************************)
\* first index >= i of a non-whitespace character, Len(s) + 1 if none
RECURSIVE SkipSpaces(_, _)
SkipSpaces(s, i) ==
    IF i > Len(s) \/ ~IsSpace(Ch(s, i)) THEN i ELSE SkipSpaces(s, i + 1)

\* last index <= i of a non-whitespace character, 0 if none
RECURSIVE SkipSpacesBack(_, _)
SkipSpacesBack(s, i) ==
    IF i < 1 \/ ~IsSpace(Ch(s, i)) THEN i ELSE SkipSpacesBack(s, i - 1)

strip(s) == SubSeq(s, SkipSpaces(s, 1), SkipSpacesBack(s, Len(s)))

\* first index >= i of a newline, Len(s) + 1 if none
RECURSIVE FindNewline(_, _)
FindNewline(s, i) ==
    IF i > Len(s) \/ Ch(s, i) = "\n" THEN i ELSE FindNewline(s, i + 1)

RECURSIVE SplitLinesFrom(_, _)
SplitLinesFrom(s, i) ==
    LET j == FindNewline(s, i)
    IN  IF j > Len(s)
        THEN <<SubSeq(s, i, Len(s))>>
        ELSE <<SubSeq(s, i, j - 1)>> \o SplitLinesFrom(s, j + 1)

\* text.split("\n"): always at least one element
SplitLines(s) == SplitLinesFrom(s, 1)

RECURSIVE JoinWith(_, _)
JoinWith(strs, sep) ==
    IF Len(strs) = 0 THEN ""
    ELSE IF Len(strs) = 1 THEN strs[1]
    ELSE strs[1] \o sep \o JoinWith(Tail(strs), sep)

(***************************************************************************)
(* TextProcessor.clean_text                                                *)
(***************************************************************************)
\* re.sub(r"\s+", " ", text)
RECURSIVE CollapseWhitespace(_, _)
CollapseWhitespace(s, i) ==
    IF i > Len(s) THEN ""
    ELSE IF IsSpace(Ch(s, i))
         THEN " " \o CollapseWhitespace(s, SkipSpaces(s, i))
         ELSE Ch(s, i) \o CollapseWhitespace(s, i + 1)

\* re.sub(r"([.!?])\s*([.!?])", r"\1 \2", text)
RECURSIVE FixPunctuation(_, _)
FixPunctuation(s, i) ==
    IF i > Len(s) THEN ""
    ELSE LET j == SkipSpaces(s, i + 1)
         IN  IF IsTerminator(Ch(s, i)) /\ j <= Len(s) /\ IsTerminator(Ch(s, j))
             THEN Ch(s, i) \o " " \o Ch(s, j) \o FixPunctuation(s, j + 1)
             ELSE Ch(s, i) \o FixPunctuation(s, i + 1)

\* re.sub(r"([.!?])([A-Z])", r"\1 \2", text)
RECURSIVE SpaceAfterPunctuation(_, _)
SpaceAfterPunctuation(s, i) ==
    IF i > Len(s) THEN ""
    ELSE IF IsTerminator(Ch(s, i)) /\ i < Len(s) /\ Ch(s, i + 1) \in UpperAZ
         THEN Ch(s, i) \o " " \o Ch(s, i + 1) \o SpaceAfterPunctuation(s, i + 2)
         ELSE Ch(s, i) \o SpaceAfterPunctuation(s, i + 1)

\* the abbreviations dict, in insertion order
abbreviations ==
    << <<"dr.", "doutor">>, <<"dra.", "doutora">>, <<"sr.", "senhor">>,
       <<"sra.", "senhora">>, <<"prof.", "professor">>,
       <<"profa.", "professora">>, <<"etc.", "et cetera">>,
       <<"ex.", "exemplo">>, <<"obs.", "observação">> >>

\* re.sub(re.escape(abbr), full, text, flags=re.IGNORECASE)
RECURSIVE ReplaceAbbreviation(_, _, _, _)
ReplaceAbbreviation(s, abbr, full, i) ==
    IF i > Len(s) THEN ""
    ELSE IF /\ i + Len(abbr) - 1 <= Len(s)
            /\ LowerStr(SubSeq(s, i, i + Len(abbr) - 1)) = abbr
         THEN full \o ReplaceAbbreviation(s, abbr, full, i + Len(abbr))
         ELSE Ch(s, i) \o ReplaceAbbreviation(s, abbr, full, i + 1)

\* for abbr, full in abbreviations.items(): text = re.sub(...)
RECURSIVE ExpandAbbreviations(_, _)
ExpandAbbreviations(s, k) ==
    IF k > Len(abbreviations) THEN s
    ELSE ExpandAbbreviations(
             ReplaceAbbreviation(s, abbreviations[k][1], abbreviations[k][2], 1),
             k + 1)

SayAsOpen == "<say-as interpret-as=\"number\">"

SayAsClose == "</say-as>"

\* first index >= i of a non-digit character, Len(s) + 1 if none
RECURSIVE SkipDigits(_, _)
SkipDigits(s, i) ==
    IF i > Len(s) \/ ~IsDigit(Ch(s, i)) THEN i ELSE SkipDigits(s, i + 1)

\* a match of r"\b(\d+)\b" starts at i: a maximal run of digits with no word
\* character on either side
NumberTokenAt(s, i) ==
    /\ i <= Len(s)
    /\ IsDigit(Ch(s, i))
    /\ (i = 1 \/ ~IsWordChar(Ch(s, i - 1)))
    /\ LET j == SkipDigits(s, i) IN j > Len(s) \/ ~IsWordChar(Ch(s, j))

\* re.sub(r"\b(\d+)\b", r'<say-as interpret-as="number">\1</say-as>', text)
RECURSIVE WrapNumbers(_, _)
WrapNumbers(s, i) ==
    IF i > Len(s) THEN ""
    ELSE IF NumberTokenAt(s, i)
         THEN LET j == SkipDigits(s, i)
              IN  SayAsOpen \o SubSeq(s, i, j - 1) \o SayAsClose \o WrapNumbers(s, j)
         ELSE Ch(s, i) \o WrapNumbers(s, i + 1)

clean_text(text) ==
    LET t1 == CollapseWhitespace(text, 1)
        t2 == FixPunctuation(t1, 1)
        t3 == SpaceAfterPunctuation(t2, 1)
        t4 == ExpandAbbreviations(t3, 1)
        t5 == WrapNumbers(t4, 1)
    IN  strip(t5)

(***************************************************************************)
(* Config.__estimate_ssml_size                                             *)
(***************************************************************************)
\* first index >= i of a character that is not . ! ?, Len(s) + 1 if none
RECURSIVE SkipTerminators(_, _)
SkipTerminators(s, i) ==
    IF i > Len(s) \/ ~IsTerminator(Ch(s, i)) THEN i ELSE SkipTerminators(s, i + 1)

\* the matches of r"[.!?]+" that start in lo..hi, first being the index the
\* scan began at: a match starts at a terminator that no terminator precedes
RECURSIVE TerminatorRunsBetween(_, _, _, _)
TerminatorRunsBetween(s, first, lo, hi) ==
    IF lo > hi THEN 0
    ELSE IF lo = hi
         THEN IF /\ IsTerminator(Ch(s, lo))
                 /\ (lo = first \/ ~IsTerminator(Ch(s, lo - 1)))
              THEN 1 ELSE 0
         ELSE LET mid == (lo + hi) \div 2
              IN  TerminatorRunsBetween(s, first, lo, mid)
                      + TerminatorRunsBetween(s, first, mid + 1, hi)

\* len(re.findall(r"[.!?]+", text))
CountTerminatorRuns(s, i) == TerminatorRunsBetween(s, i, i, Len(s))

\* the matches of r"\b\d+\b" that start in lo..hi
RECURSIVE NumberTokensBetween(_, _, _)
NumberTokensBetween(s, lo, hi) ==
    IF lo > hi THEN 0
    ELSE IF lo = hi THEN (IF NumberTokenAt(s, lo) THEN 1 ELSE 0)
         ELSE LET mid == (lo + hi) \div 2
              IN  NumberTokensBetween(s, lo, mid)
                      + NumberTokensBetween(s, mid + 1, hi)

\* len(re.findall(r"\b\d+\b", text))
CountNumberTokens(s, i) == NumberTokensBetween(s, i, Len(s))

\* the estimate without the overhead of the sentence breaks
estimate_ssml_size_NoBreakOverhead(text) ==
    LET number_count == CountNumberTokens(text, 1)
        base_size == Utf8Bytes(text, 1)
        ssml_overhead == 15 + (number_count * 35)
    IN  base_size + ssml_overhead

estimate_ssml_size(text) ==
    LET sentence_count == CountTerminatorRuns(text, 1)
        number_count == CountNumberTokens(text, 1)
        base_size == Utf8Bytes(text, 1)
        ssml_overhead == 15 + (sentence_count * 25) + (number_count * 35)
    IN  base_size + ssml_overhead

(***************************************************************************)
(* TextProcessor.detect_chapters                                           *)
(***************************************************************************)
\* re.match(r"^\s*<keyword>\s+(\d+|[ivx]+)\s*:?\s*(.*)$", line, re.IGNORECASE)
\* on a stripped line: the keyword, at least one whitespace character, then a
\* digit or one of i, v, x; the rest of the pattern matches any remainder
KeywordHeading(line, keyword) ==
    LET n == Len(keyword)
        j == SkipSpaces(line, n + 1)
    IN  /\ Len(line) > n
        /\ LowerStr(SubSeq(line, 1, n)) = keyword
        /\ IsSpace(Ch(line, n + 1))
        /\ j <= Len(line)
        /\ (IsDigit(Ch(line, j)) \/ LowerCh(Ch(line, j)) \in {"i", "v", "x"})

\* re.match(r"^\s*(\d+)\.\s*(.*)$", line, re.IGNORECASE) on a stripped line
NumberedHeading(line) ==
    LET j == SkipDigits(line, 1)
    IN  j > 1 /\ j <= Len(line) /\ Ch(line, j) = "."

\* some pattern of chapter_patterns matches the stripped line
IsChapterHeading(line) ==
    \/ KeywordHeading(line, "capítulo")
    \/ KeywordHeading(line, "chapter")
    \/ NumberedHeading(line)
    \/ KeywordHeading(line, "parte")

\* the for loop over lines, from line k on; st is the loop's local state
\* the loop with current_text = line + "\n" in place of +=
RECURSIVE DetectLoop_Overwrite(_, _, _)
DetectLoop_Overwrite(lines, k, st) ==
    IF k > Len(lines) THEN st
    ELSE LET line == strip(lines[k])
         IN  IF line = ""
             THEN DetectLoop_Overwrite(lines, k + 1,
                      [st EXCEPT !.current_text = @ \o "\n"])
             ELSE IF IsChapterHeading(line)
             THEN DetectLoop_Overwrite(lines, k + 1,
                      [chapters |->
                           IF strip(st.current_text) # ""
                           THEN Append(st.chapters,
                                    <<st.current_chapter, strip(st.current_text)>>)
                           ELSE st.chapters,
                       current_chapter |-> st.current_chapter + 1,
                       current_text |-> ""])
             ELSE DetectLoop_Overwrite(lines, k + 1,
                      [st EXCEPT !.current_text = line \o "\n"])

RECURSIVE DetectLoop(_, _, _)
DetectLoop(lines, k, st) ==
    IF k > Len(lines) THEN st
    ELSE LET line == strip(lines[k])
         IN  IF line = ""
             THEN DetectLoop(lines, k + 1,
                      [st EXCEPT !.current_text = @ \o "\n"])
             ELSE IF IsChapterHeading(line)
             THEN DetectLoop(lines, k + 1,
                      [chapters |->
                           IF strip(st.current_text) # ""
                           THEN Append(st.chapters,
                                    <<st.current_chapter, strip(st.current_text)>>)
                           ELSE st.chapters,
                       current_chapter |-> st.current_chapter + 1,
                       current_text |-> ""])
             ELSE DetectLoop(lines, k + 1,
                      [st EXCEPT !.current_text = @ \o line \o "\n"])

\* detect_chapters without its last step, the one-chapter fallback
detect_chapters_NoFallback(text) ==
    LET st == DetectLoop(SplitLines(text), 1,
                  [chapters |-> <<>>, current_chapter |-> 1, current_text |-> ""])
    IN  IF strip(st.current_text) # ""
        THEN Append(st.chapters, <<st.current_chapter, strip(st.current_text)>>)
        ELSE st.chapters

detect_chapters(text) ==
    LET st == DetectLoop(SplitLines(text), 1,
                  [chapters |-> <<>>, current_chapter |-> 1, current_text |-> ""])
        chapters == IF strip(st.current_text) # ""
                    THEN Append(st.chapters,
                             <<st.current_chapter, strip(st.current_text)>>)
                    ELSE st.chapters
    IN  IF chapters = <<>> THEN << <<1, text>> >> ELSE chapters

(***************************************************************************)
(* TextProcessor.split_into_paragraphs                                     *)
(***************************************************************************)
RECURSIVE ParagraphLoop(_, _, _)
ParagraphLoop(lines, k, st) ==
    IF k > Len(lines) THEN st
    ELSE LET line == strip(lines[k])
         IN  IF line = ""
             THEN IF st.current_paragraph # ""
                  THEN ParagraphLoop(lines, k + 1,
                           [paragraphs |-> Append(st.paragraphs,
                                               strip(st.current_paragraph)),
                            current_paragraph |-> ""])
                  ELSE ParagraphLoop(lines, k + 1, st)
             ELSE ParagraphLoop(lines, k + 1,
                      [st EXCEPT !.current_paragraph =
                           IF @ # "" THEN @ \o " " \o line ELSE line])

split_into_paragraphs(text) ==
    LET st == ParagraphLoop(SplitLines(text), 1,
                  [paragraphs |-> <<>>, current_paragraph |-> ""])
        paragraphs == IF st.current_paragraph # ""
                      THEN Append(st.paragraphs, strip(st.current_paragraph))
                      ELSE st.paragraphs
    IN  SelectSeq(paragraphs, LAMBDA p : p # "")

(***************************************************************************)
(* TextProcessor.split_into_sentences and _basic_sentence_split            *)
(***************************************************************************)
\* [s.strip() for s in sentences if s.strip()]
StripNonEmpty(strs) ==
    SelectSeq([k \in 1..Len(strs) |-> strip(strs[k])], LAMBDA t : t # "")

\* re.split(r"[.!?]+\s+", text) from index i on; start is where the piece
\* being scanned began
RECURSIVE BasicSplitFrom(_, _, _)
BasicSplitFrom(s, i, start) ==
    IF i > Len(s) THEN <<SubSeq(s, start, Len(s))>>
    ELSE LET j == SkipTerminators(s, i)
             k == SkipSpaces(s, j)
         IN  IF IsTerminator(Ch(s, i)) /\ k > j
             THEN <<SubSeq(s, start, i - 1)>> \o BasicSplitFrom(s, k, k)
             ELSE IF IsTerminator(Ch(s, i))
                  THEN BasicSplitFrom(s, j, start)
                  ELSE BasicSplitFrom(s, i + 1, start)

basic_sentence_split(text) == StripNonEmpty(BasicSplitFrom(text, 1, 1))

\* The places where the Punkt tokenizer can end a sentence: a sentence
\* terminator that is followed by whitespace.  Which of them it takes depends
\* on its abbreviation, initial and number heuristics, so the tokenizer is a
\* choice of a subset of these places.
BreakCandidates(s) ==
    {j \in 1..(Len(s) - 1) : IsTerminator(Ch(s, j)) /\ IsSpace(Ch(s, j + 1))}

\* the slices of s that end at the chosen breaks, terminators kept
RECURSIVE PunktSlices(_, _, _, _)
PunktSlices(s, breaks, i, start) ==
    IF i > Len(s) THEN <<SubSeq(s, start, Len(s))>>
    ELSE IF i \in breaks
         THEN <<SubSeq(s, start, i)>> \o PunktSlices(s, breaks, i + 1, i + 1)
         ELSE PunktSlices(s, breaks, i + 1, start)

\* self.sentence_tokenizer.tokenize(text)
PunktTokenize(s, breaks) == PunktSlices(s, breaks, 1, 1)

\* tokenizer is the outcome of the tokenize call: it raises, or it ends
\* sentences at tokenizer.breaks
split_into_sentences(text, tokenizer) ==
    IF tokenizer.raises
    THEN basic_sentence_split(text)
    ELSE StripNonEmpty(PunktTokenize(text, tokenizer.breaks))

TokenizerOutcomes(text) ==
    [raises : {TRUE}, breaks : {{}}]
        \cup [raises : {FALSE}, breaks : SUBSET BreakCandidates(text)]

(***************************************************************************)
(* State                                                                   *)
(***************************************************************************)
VARIABLES
    \* TextProcessor.create_segments: its arguments, its position and locals
    text, max_length, pc, chapters, ch_idx, paragraphs, para_idx,
    sentences, sent_idx, current_chunk, chunk_sentences, segments,
    \* history: for every paragraph reached, its chapter number, paragraph
    \* number, the sentences split_into_sentences returned for it and the
    \* cleaned_sentence values computed from them so far
    para_log,
    \* repeated TextProcessor.clean_text: the sentence, the number of
    \* applications so far, the result of the first and of the latest one
    clean_input, clean_passes, clean_first, clean_last,
    \* AudioProcessor.create_audiobook_from_bytes: its arguments, its position
    \* and locals, its return value and the files exported
    audio_bytes_list, segments_info, apc, a_idx, audio_segments,
    final_segments, current_chapter, audiobook, output_path, files,
    output_filename,
    \* AudioProcessor.create_chapter_files: its arguments, its position and
    \* locals (chapter_order is sorted(chapters.keys())) and its return value
    cf_audio_bytes_list, cf_segments_info, output_prefix, cpc, chapter_groups,
    chapter_order, cf_idx, chapter_files,
    \* TextProcessor.create_ssml: its arguments and its return value
    ssml_text, ssml_add_pauses, ssml,
    \* AudiobookGenerator.generate_audiobook called by the generate command:
    \* the input file, the arguments, the position, the locals of the stages,
    \* the return value or the exception raised, and the exit status
    input_state, file_content, split_chapters, preview_mode, rpc, text_content,
    run_segments, batch_i, batch_audio_segments, run_audio_bytes,
    run_segments_info, output_files, tag_i, run_result, raised, exit_code,
    \* history: the synthesis calls issued, the error lines logged by
    \* batch_synthesize and the files given to add_metadata
    synth_log, error_log, metadata_log,
    \* TTSEngine: the arguments of the constructor, its attributes, the
    \* position, and the arguments and the voice parameters of the last
    \* synthesize_text call
    language_arg, gender_arg, language_code, voice_gender, use_premium_voices,
    voice_name, vpc, use_ssml, voice_params,
    \* TextProcessor._basic_sentence_split: its argument, its position and its
    \* return value
    split_text, spc, split_result

segVars == <<text, max_length, pc, chapters, ch_idx, paragraphs, para_idx,
             sentences, sent_idx, current_chunk, chunk_sentences, segments,
             para_log>>

cleanVars == <<clean_input, clean_passes, clean_first, clean_last>>

audioVars == <<audio_bytes_list, segments_info, apc, a_idx, audio_segments,
               final_segments, current_chapter, audiobook, output_path, files,
               output_filename>>

chapterVars == <<cf_audio_bytes_list, cf_segments_info, output_prefix, cpc,
                 chapter_groups, chapter_order, cf_idx, chapter_files>>

ssmlVars == <<ssml_text, ssml_add_pauses, ssml>>

runVars == <<input_state, file_content, split_chapters, preview_mode, rpc,
             text_content, run_segments, batch_i, batch_audio_segments,
             run_audio_bytes, run_segments_info, output_files, tag_i, run_result,
             raised, exit_code, synth_log, error_log, metadata_log>>

voiceVars == <<language_arg, gender_arg, language_code, voice_gender,
               use_premium_voices, voice_name, vpc, use_ssml, voice_params>>

splitVars == <<split_text, spc, split_result>>

vars == <<segVars, cleanVars, audioVars, chapterVars, ssmlVars, runVars,
          voiceVars, splitVars>>

\* Python's None: a value that no str of the program equals, the str "None"
\* that Config.get_voice_name returns included
None == "<None>"

(***************************************************************************)
(* Bounds and inputs of the segmentation engine                            *)
(***************************************************************************)
\* a text over CoreLines has at most MaxLines lines
MaxLines == 4

\* a text over AllLines has at most MaxShortLines lines
MaxShortLines == 3

\* the lines a text is made of: a blank line, a numbered heading, a
\* two-sentence body line and a body line with a numeral
CoreLines == {"", "1.", "Oi. Ab!", "x 5?"}

\* and also: a whitespace-only line, a keyword heading, an abbreviation
AllLines == CoreLines \cup {" ", "Chapter 7: A", "dr. Y"}

TextsOver(lines, n) ==
    {JoinWith(ls, "\n") : ls \in UNION {[1..m -> lines] : m \in 1..n}}

\* the two-chapter scenario of the specification, and a text whose first
\* chapter has two paragraphs and is followed by a second chapter
ScenarioTexts ==
    {"Chapter 1: A\n\nHello world. Second sentence.\n\nChapter 2: B\n\nThird sentence.",
     "Oi. Ab!\n\nx 5?\n1.\nOi. Ab!"}

Texts ==
    TextsOver(CoreLines, MaxLines) \cup TextsOver(AllLines, MaxShortLines)
        \cup ScenarioTexts

\* the max_length arguments tried: below, around and above the size of a
\* paragraph, each also below or above the estimated markup size
MaxLengthChoices == {12, 90}

(***************************************************************************)
(* TextProcessor.create_segments                                           *)
(***************************************************************************)
\* TextSegment with sentence_number=len(current_chunk.strip())
TextSegment_ChunkLength(t, chapter_num, para_num, n) ==
    [text |-> t, segment_type |-> "paragraph", chapter_number |-> chapter_num,
     paragraph_number |-> para_num, sentence_number |-> Len(t)]

\* TextSegment with the chapter and paragraph arguments exchanged
TextSegment_Swapped(t, chapter_num, para_num, n) ==
    [text |-> t, segment_type |-> "paragraph", chapter_number |-> para_num,
     paragraph_number |-> chapter_num, sentence_number |-> n]

TextSegment(t, chapter_num, para_num, n) ==
    [text |-> t, segment_type |-> "paragraph", chapter_number |-> chapter_num,
     paragraph_number |-> para_num, sentence_number |-> n]

\* the length test with >= in place of >
ExceedsMaxLength_AtLimit(chunk, cleaned_sentence, limit) ==
    Len(chunk) + Len(cleaned_sentence) + 1 >= limit /\ chunk # ""

\* the length test without "and current_chunk"
ExceedsMaxLength_NoChunkCheck(chunk, cleaned_sentence, limit) ==
    Len(chunk) + Len(cleaned_sentence) + 1 > limit

\* len(current_chunk) + len(cleaned_sentence) + 1 > max_length and current_chunk
ExceedsMaxLength(chunk, cleaned_sentence, limit) ==
    Len(chunk) + Len(cleaned_sentence) + 1 > limit /\ chunk # ""

\* the append with its operands exchanged
AppendToChunk_Reversed(chunk, cleaned_sentence) ==
    IF chunk # "" THEN cleaned_sentence \o " " \o chunk ELSE cleaned_sentence

\* current_chunk += " " + cleaned_sentence if current_chunk else cleaned_sentence
AppendToChunk(chunk, cleaned_sentence) ==
    IF chunk # "" THEN chunk \o " " \o cleaned_sentence ELSE cleaned_sentence

SegIdle ==
    /\ text = "" /\ max_length = 0 /\ pc = "idle"
    /\ chapters = <<>> /\ ch_idx = 0 /\ paragraphs = <<>> /\ para_idx = 0
    /\ sentences = <<>> /\ sent_idx = 0 /\ current_chunk = ""
    /\ chunk_sentences = <<>> /\ segments = <<>> /\ para_log = <<>>

SegInit ==
    /\ text \in Texts
    /\ max_length \in MaxLengthChoices
    /\ pc = "detect"
    /\ chapters = <<>> /\ ch_idx = 0 /\ paragraphs = <<>> /\ para_idx = 0
    /\ sentences = <<>> /\ sent_idx = 0 /\ current_chunk = ""
    /\ chunk_sentences = <<>> /\ segments = <<>> /\ para_log = <<>>

\* segments = []; chapters = self.detect_chapters(text)
DetectChapters ==
    /\ pc = "detect"
    /\ chapters' = detect_chapters(text)
    /\ ch_idx' = 1
    /\ pc' = "chapter"
    /\ UNCHANGED <<text, max_length, paragraphs, para_idx, sentences, sent_idx,
                   current_chunk, chunk_sentences, segments, para_log>>
    /\ UNCHANGED <<cleanVars, audioVars, chapterVars, ssmlVars, voiceVars, splitVars, runVars>>

\* for chapter_num, chapter_text in chapters: paragraphs = ...
BeginChapter ==
    /\ pc = "chapter"
    /\ ch_idx <= Len(chapters)
    /\ paragraphs' = split_into_paragraphs(chapters[ch_idx][2])
    /\ para_idx' = 1
    /\ pc' = "paragraph"
    /\ UNCHANGED <<text, max_length, chapters, ch_idx, sentences, sent_idx,
                   current_chunk, chunk_sentences, segments, para_log>>
    /\ UNCHANGED <<cleanVars, audioVars, chapterVars, ssmlVars, voiceVars, splitVars, runVars>>

\* the paragraph loop without "current_chunk = ''; chunk_sentences = []"
BeginParagraph_KeepChunk ==
    /\ pc = "paragraph"
    /\ para_idx <= Len(paragraphs)
    /\ \E tokenizer \in TokenizerOutcomes(paragraphs[para_idx]) :
           /\ sentences' = split_into_sentences(paragraphs[para_idx], tokenizer)
           /\ para_log' = Append(para_log,
                              [chapter_number |-> chapters[ch_idx][1],
                               paragraph_number |-> para_idx,
                               sentences |-> sentences',
                               cleaned |-> <<>>])
    /\ sent_idx' = 1
    /\ pc' = "sentence"
    /\ UNCHANGED <<text, max_length, chapters, ch_idx, paragraphs, para_idx,
                   segments, current_chunk, chunk_sentences>>
    /\ UNCHANGED <<cleanVars, audioVars, chapterVars, ssmlVars, voiceVars, splitVars, runVars>>

\* for para_num, paragraph in enumerate(paragraphs, 1): sentences = ...;
\* current_chunk = ""; chunk_sentences = []
BeginParagraph ==
    /\ pc = "paragraph"
    /\ para_idx <= Len(paragraphs)
    /\ \E tokenizer \in TokenizerOutcomes(paragraphs[para_idx]) :
           /\ sentences' = split_into_sentences(paragraphs[para_idx], tokenizer)
           /\ para_log' = Append(para_log,
                              [chapter_number |-> chapters[ch_idx][1],
                               paragraph_number |-> para_idx,
                               sentences |-> sentences',
                               cleaned |-> <<>>])
    /\ current_chunk' = ""
    /\ chunk_sentences' = <<>>
    /\ sent_idx' = 1
    /\ pc' = "sentence"
    /\ UNCHANGED <<text, max_length, chapters, ch_idx, paragraphs, para_idx,
                   segments>>
    /\ UNCHANGED <<cleanVars, audioVars, chapterVars, ssmlVars, voiceVars, splitVars, runVars>>

\* one iteration of: for sent_num, sentence in enumerate(sentences, 1)
ProcessSentence ==
    /\ pc = "sentence"
    /\ sent_idx <= Len(sentences)
    /\ LET sentence == sentences[sent_idx]
           cleaned_sentence == clean_text(sentence)
       IN  IF ExceedsMaxLength(current_chunk, cleaned_sentence, max_length)
           THEN /\ segments' = Append(segments,
                                   TextSegment(strip(current_chunk),
                                               chapters[ch_idx][1], para_idx,
                                               Len(chunk_sentences)))
                /\ current_chunk' = cleaned_sentence
                /\ chunk_sentences' = <<sentence>>
           ELSE /\ current_chunk' = AppendToChunk(current_chunk, cleaned_sentence)
                /\ chunk_sentences' = Append(chunk_sentences, sentence)
                /\ UNCHANGED segments
    /\ para_log' = [para_log EXCEPT ![Len(para_log)].cleaned =
                        Append(@, clean_text(sentences[sent_idx]))]
    /\ sent_idx' = sent_idx + 1
    /\ UNCHANGED <<text, max_length, pc, chapters, ch_idx, paragraphs, para_idx,
                   sentences>>
    /\ UNCHANGED <<cleanVars, audioVars, chapterVars, ssmlVars, voiceVars, splitVars, runVars>>

\* after the sentence loop: if current_chunk: segments.append(...)
EndParagraph ==
    /\ pc = "sentence"
    /\ sent_idx > Len(sentences)
    /\ segments' = IF current_chunk # ""
                   THEN Append(segments,
                            TextSegment(strip(current_chunk), chapters[ch_idx][1],
                                        para_idx, Len(chunk_sentences)))
                   ELSE segments
    /\ para_idx' = para_idx + 1
    /\ pc' = "paragraph"
    /\ UNCHANGED <<text, max_length, chapters, ch_idx, paragraphs, sentences,
                   sent_idx, current_chunk, chunk_sentences, para_log>>
    /\ UNCHANGED <<cleanVars, audioVars, chapterVars, ssmlVars, voiceVars, splitVars, runVars>>

\* the paragraph loop of a chapter is exhausted
EndChapter ==
    /\ pc = "paragraph"
    /\ para_idx > Len(paragraphs)
    /\ ch_idx' = ch_idx + 1
    /\ pc' = "chapter"
    /\ UNCHANGED <<text, max_length, chapters, paragraphs, para_idx, sentences,
                   sent_idx, current_chunk, chunk_sentences, segments, para_log>>
    /\ UNCHANGED <<cleanVars, audioVars, chapterVars, ssmlVars, voiceVars, splitVars, runVars>>

\* return segments
ReturnSegments ==
    /\ pc = "chapter"
    /\ ch_idx > Len(chapters)
    /\ pc' = "done"
    /\ UNCHANGED <<text, max_length, chapters, ch_idx, paragraphs, para_idx,
                   sentences, sent_idx, current_chunk, chunk_sentences, segments,
                   para_log>>
    /\ UNCHANGED <<cleanVars, audioVars, chapterVars, ssmlVars, voiceVars, splitVars, runVars>>

(***************************************************************************)
(* Repeated TextProcessor.clean_text                                       *)
(***************************************************************************)
\* a sampled sentence has at most MaxSentenceLen characters
MaxSentenceLen == 3

\* clean_text is applied at most MaxPasses times to a sentence
MaxPasses == 2

CleanAlphabet == {"a", "B", " ", ".", "!", "5"}

RECURSIVE StringsUpTo(_)
StringsUpTo(n) ==
    IF n = 0 THEN {""}
    ELSE LET shorter == StringsUpTo(n - 1)
         IN  shorter \cup {s \o c : s \in shorter, c \in CleanAlphabet}

\* sampled sentences: every short string over the alphabet with at most one
\* numeral (each application of clean_text adds 38 characters of markup per
\* numeral), sentences with abbreviations of the table and adjacent
\* punctuation, and sentences where the characters of an abbreviation end a
\* longer word
CleanSamples ==
    {s \in StringsUpTo(MaxSentenceLen) : CountNumberTokens(s, 1) <= 1}
        \cup {"Dr. Y", "a sra. B", "etc.. ", "obs.Ex.", "Oi...Ab", "x 12 y",
              "index.", "um index. Ex."}

CleanIdle ==
    /\ clean_input = "" /\ clean_passes = 0 /\ clean_first = "" /\ clean_last = ""

CleanInit ==
    /\ clean_input \in CleanSamples
    /\ clean_passes = 0
    /\ clean_first = ""
    /\ clean_last = clean_input

\* text = clean_text(text)
CleanAgain ==
    /\ clean_passes < MaxPasses
    /\ clean_last' = clean_text(clean_last)
    /\ clean_first' = IF clean_passes = 0 THEN clean_last' ELSE clean_first
    /\ clean_passes' = clean_passes + 1
    /\ UNCHANGED clean_input
    /\ UNCHANGED <<segVars, audioVars, chapterVars, ssmlVars, voiceVars, splitVars, runVars>>

(***************************************************************************)
(* AudioProcessor                                                          *)
(***************************************************************************)
\* an audio_bytes_list has at most MaxSegments entries
MaxSegments == 3

\* chapter numbers of the segment metadata range over 1..MaxChapter
MaxChapter == 2

PAUSE_BETWEEN_SENTENCES == 800

PAUSE_BETWEEN_CHAPTERS == 3000

OUTPUT_DIR == "output"

\* bytes values: b"" of a failed synthesis, bytes that AudioSegment.from_mp3
\* cannot decode, and two distinguishable valid MP3 buffers
EmptyBytes == ""

CorruptBytes == "corrupt"

AudioBytesChoices == {EmptyBytes, CorruptBytes, "mp3-a", "mp3-b"}

\* a segment metadata dict: its "chapter" entry, NoKey when it has none
NoKey == -1

\* current_chapter = None: a value no chapter number equals
NoChapter == -2

SegmentInfoChoices == [chapter : (1..MaxChapter) \cup {NoKey}]

SeqsUpTo(S, n) == UNION {[1..m -> S] : m \in 0..n}

\* An AudioSegment is the sequence of its clips, a + b is a \o b.
\* AudioSegment.silent(duration=duration_ms)
add_silence(duration_ms) == <<[kind |-> "silence", ms |-> duration_ms]>>

\* AudioSegment.from_mp3 raises on bytes that are not MP3 data
DecodeRaises(audio_bytes) == audio_bytes = CorruptBytes

bytes_to_audio_segment(audio_bytes) ==
    <<[kind |-> "audio", src |-> audio_bytes, normalized |-> FALSE]>>

\* audio.apply_gain(target_dBFS - audio.dBFS)
normalize_audio(audio) ==
    [k \in 1..Len(audio) |->
        IF audio[k].kind = "audio" THEN [audio[k] EXCEPT !.normalized = TRUE]
        ELSE audio[k]]

\* audio.fade_in(fade_in_ms).fade_out(fade_out_ms)
add_fade(audio, fade_in_ms, fade_out_ms) ==
    [clips |-> audio, fade_in |-> fade_in_ms, fade_out |-> fade_out_ms]

RECURSIVE ConcatLoop(_, _, _, _)
ConcatLoop(segs, i, result, add_pauses) ==
    IF i > Len(segs) THEN result
    ELSE ConcatLoop(segs, i + 1,
             (IF add_pauses THEN result \o add_silence(PAUSE_BETWEEN_SENTENCES)
              ELSE result) \o segs[i],
             add_pauses)

concatenate_audio_segments(segs, add_pauses) ==
    IF segs = <<>> THEN add_silence(1000)
    ELSE ConcatLoop(segs, 2, segs[1], add_pauses)

\* segment_info.get("chapter", 1)
ChapterOf(segment_info) ==
    IF segment_info.chapter = NoKey THEN 1 ELSE segment_info.chapter

\* the chapter test without "current_chapter is not None"
NeedsChapterBreak_NoNoneCheck(cur, chapter_num) == chapter_num # cur

\* current_chapter is not None and chapter_num != current_chapter
NeedsChapterBreak(cur, chapter_num) == cur # NoChapter /\ chapter_num # cur

\* Config.get_output_path
get_output_path(filename) == OUTPUT_DIR \o "/" \o filename

\* output_filename: str = "audiobook.mp3"
DefaultOutputFilename == "audiobook.mp3"

NoFiles == [p \in {} |-> None]

AudioIdle ==
    /\ audio_bytes_list = <<>> /\ segments_info = <<>> /\ apc = "idle"
    /\ a_idx = 0 /\ audio_segments = <<>> /\ final_segments = <<>>
    /\ current_chapter = NoChapter /\ audiobook = None /\ output_path = None
    /\ files = NoFiles
    /\ output_filename = DefaultOutputFilename

AudioInit ==
    /\ audio_bytes_list \in SeqsUpTo(AudioBytesChoices, MaxSegments)
    /\ segments_info \in SeqsUpTo(SegmentInfoChoices, Len(audio_bytes_list))
    /\ apc = "decode"
    /\ a_idx = 1
    /\ audio_segments = <<>> /\ final_segments = <<>>
    /\ current_chapter = NoChapter /\ audiobook = None /\ output_path = None
    /\ files = NoFiles
    /\ output_filename = DefaultOutputFilename

\* the decoding loop with the try/except around the whole loop: the first
\* segment that fails to decode ends the loop
DecodeSegment_StopOnError ==
    /\ apc = "decode"
    /\ a_idx <= Len(audio_bytes_list)
    /\ LET audio_bytes == audio_bytes_list[a_idx]
       IN  IF audio_bytes # EmptyBytes /\ DecodeRaises(audio_bytes)
           THEN /\ a_idx' = Len(audio_bytes_list) + 1
                /\ UNCHANGED audio_segments
           ELSE /\ a_idx' = a_idx + 1
                /\ audio_segments' =
                       IF audio_bytes # EmptyBytes
                       THEN Append(audio_segments,
                                normalize_audio(bytes_to_audio_segment(audio_bytes)))
                       ELSE audio_segments
    /\ UNCHANGED <<audio_bytes_list, segments_info, apc, final_segments,
                   current_chapter, audiobook, output_path, files,
                   output_filename>>
    /\ UNCHANGED <<segVars, cleanVars, chapterVars, ssmlVars, voiceVars, splitVars, runVars>>

\* one iteration of: for i, audio_bytes in enumerate(audio_bytes_list)
DecodeSegment ==
    /\ apc = "decode"
    /\ a_idx <= Len(audio_bytes_list)
    /\ LET audio_bytes == audio_bytes_list[a_idx]
       IN  audio_segments' =
               IF audio_bytes # EmptyBytes /\ ~DecodeRaises(audio_bytes)
               THEN Append(audio_segments,
                        normalize_audio(bytes_to_audio_segment(audio_bytes)))
               ELSE audio_segments
    /\ a_idx' = a_idx + 1
    /\ UNCHANGED <<audio_bytes_list, segments_info, apc, final_segments,
                   current_chapter, audiobook, output_path, files,
                   output_filename>>
    /\ UNCHANGED <<segVars, cleanVars, chapterVars, ssmlVars, voiceVars, splitVars, runVars>>

\* without the early return: the placeholder silence of
\* concatenate_audio_segments is exported
ReturnNone_ExportPlaceholder ==
    /\ apc = "decode"
    /\ a_idx > Len(audio_bytes_list)
    /\ audio_segments = <<>>
    /\ audiobook' = add_fade(concatenate_audio_segments(<<>>, TRUE), 1000, 2000)
    /\ output_path' = get_output_path(output_filename)
    /\ files' = [p \in DOMAIN files \cup {output_path'} |->
                    IF p = output_path' THEN audiobook' ELSE files[p]]
    /\ apc' = "done"
    /\ UNCHANGED <<audio_bytes_list, segments_info, a_idx, audio_segments,
                   final_segments, current_chapter, output_filename>>
    /\ UNCHANGED <<segVars, cleanVars, chapterVars, ssmlVars, voiceVars, splitVars, runVars>>

\* if not audio_segments: return None
ReturnNone ==
    /\ apc = "decode"
    /\ a_idx > Len(audio_bytes_list)
    /\ audio_segments = <<>>
    /\ output_path' = None
    /\ apc' = "done"
    /\ UNCHANGED <<audio_bytes_list, segments_info, a_idx, audio_segments,
                   final_segments, current_chapter, audiobook, files,
                   output_filename>>
    /\ UNCHANGED <<segVars, cleanVars, chapterVars, ssmlVars, voiceVars, splitVars, runVars>>

\* final_segments = []; current_chapter = None
BeginChapterBreaks ==
    /\ apc = "decode"
    /\ a_idx > Len(audio_bytes_list)
    /\ audio_segments # <<>>
    /\ final_segments' = <<>>
    /\ current_chapter' = NoChapter
    /\ a_idx' = 1
    /\ apc' = "breaks"
    /\ UNCHANGED <<audio_bytes_list, segments_info, audio_segments, audiobook,
                   output_path, files, output_filename>>
    /\ UNCHANGED <<segVars, cleanVars, chapterVars, ssmlVars, voiceVars, splitVars, runVars>>

\* one iteration of: for i, segment in enumerate(audio_segments)
AddSegment ==
    /\ apc = "breaks"
    /\ a_idx <= Len(audio_segments)
    /\ IF segments_info # <<>> /\ a_idx <= Len(segments_info)
       THEN LET chapter_num == ChapterOf(segments_info[a_idx])
            IN  /\ final_segments' =
                       IF NeedsChapterBreak(current_chapter, chapter_num)
                       THEN final_segments
                                \o <<add_silence(PAUSE_BETWEEN_CHAPTERS)>>
                                \o <<audio_segments[a_idx]>>
                       ELSE Append(final_segments, audio_segments[a_idx])
                /\ current_chapter' = chapter_num
       ELSE /\ final_segments' = Append(final_segments, audio_segments[a_idx])
            /\ UNCHANGED current_chapter
    /\ a_idx' = a_idx + 1
    /\ UNCHANGED <<audio_bytes_list, segments_info, apc, audio_segments,
                   audiobook, output_path, files, output_filename>>
    /\ UNCHANGED <<segVars, cleanVars, chapterVars, ssmlVars, voiceVars, splitVars, runVars>>

\* concatenate, fade, export, return output_path
ExportAudiobook ==
    /\ apc = "breaks"
    /\ a_idx > Len(audio_segments)
    /\ audiobook' = add_fade(concatenate_audio_segments(final_segments, TRUE),
                             1000, 2000)
    /\ output_path' = get_output_path(output_filename)
    /\ files' = [p \in DOMAIN files \cup {output_path'} |->
                    IF p = output_path' THEN audiobook' ELSE files[p]]
    /\ apc' = "done"
    /\ UNCHANGED <<audio_bytes_list, segments_info, a_idx, audio_segments,
                   final_segments, current_chapter, output_filename>>
    /\ UNCHANGED <<segVars, cleanVars, chapterVars, ssmlVars, voiceVars, splitVars, runVars>>

(***************************************************************************)
(* AudioProcessor.create_chapter_files                                     *)
(***************************************************************************)
\* output_prefix: str = "chapter"
DefaultOutputPrefix == "chapter"

\* f"{chapter_num:02d}" of a chapter number that is not negative
Format02d(n) == IF n < 10 THEN "0" \o ToString(n) ELSE ToString(n)

\* f"{output_prefix}_{chapter_num:02d}.mp3"
ChapterFilename(prefix, chapter_num) ==
    prefix \o "_" \o Format02d(chapter_num) \o ".mp3"

\* The dict chapters is the sequence of its items in insertion order, an item
\* being a key and the list of the indexes grouped under it.
DictKeys(dict) == [k \in 1..Len(dict) |-> dict[k].key]

DictIndex(dict, key) == CHOOSE k \in 1..Len(dict) : dict[k].key = key

\* the loop with chapters[chapter_num] = [] outside of its "not in" test: a
\* group is emptied whenever a segment of its chapter arrives
RECURSIVE GroupLoop_ResetGroup(_, _, _, _)
GroupLoop_ResetGroup(bytes_list, infos, i, dict) ==
    IF i > Len(infos) THEN dict
    ELSE IF i <= Len(bytes_list)
         THEN LET chapter_num == ChapterOf(infos[i])
                  present == \E k \in 1..Len(dict) : dict[k].key = chapter_num
                  with_key == IF present THEN dict
                              ELSE Append(dict, [key |-> chapter_num,
                                                 members |-> <<>>])
                  at == DictIndex(with_key, chapter_num)
              IN  GroupLoop_ResetGroup(bytes_list, infos, i + 1,
                      [with_key EXCEPT ![at].members = <<i>>])
         ELSE GroupLoop_ResetGroup(bytes_list, infos, i + 1, dict)

\* the loop: for i, segment_info in enumerate(segments_info)
RECURSIVE GroupLoop(_, _, _, _)
GroupLoop(bytes_list, infos, i, dict) ==
    IF i > Len(infos) THEN dict
    ELSE IF i <= Len(bytes_list)
         THEN LET chapter_num == ChapterOf(infos[i])
                  present == \E k \in 1..Len(dict) : dict[k].key = chapter_num
                  with_key == IF present THEN dict
                              ELSE Append(dict, [key |-> chapter_num,
                                                 members |-> <<>>])
                  at == DictIndex(with_key, chapter_num)
              IN  GroupLoop(bytes_list, infos, i + 1,
                      [with_key EXCEPT ![at].members = Append(@, i)])
         ELSE GroupLoop(bytes_list, infos, i + 1, dict)

RECURSIVE SortAscending(_)
SortAscending(S) ==
    IF S = {} THEN <<>>
    ELSE LET least == CHOOSE x \in S : \A y \in S : x <= y
         IN  <<least>> \o SortAscending(S \ {least})

\* iterating chapters.keys() itself: the keys in insertion order
sorted_InsertionOrder(keys) == keys

\* sorted(chapters.keys())
sorted(keys) == SortAscending({keys[k] : k \in 1..Len(keys)})

ChapterIdle ==
    /\ cf_audio_bytes_list = <<>> /\ cf_segments_info = <<>>
    /\ output_prefix = DefaultOutputPrefix /\ cpc = "idle"
    /\ chapter_groups = <<>> /\ chapter_order = <<>> /\ cf_idx = 0
    /\ chapter_files = <<>>

ChapterInit ==
    /\ cf_audio_bytes_list \in SeqsUpTo(AudioBytesChoices, MaxSegments)
    /\ cf_segments_info \in SeqsUpTo(SegmentInfoChoices, MaxSegments)
    /\ output_prefix = DefaultOutputPrefix
    /\ cpc = "start"
    /\ chapter_groups = <<>> /\ chapter_order = <<>> /\ cf_idx = 0
    /\ chapter_files = <<>>

\* entering self.create_audiobook_from_bytes(bytes_list, infos, filename)
CallCreateAudiobook(bytes_list, infos, filename) ==
    /\ audio_bytes_list' = bytes_list
    /\ segments_info' = infos
    /\ output_filename' = filename
    /\ apc' = "decode"
    /\ a_idx' = 1
    /\ audio_segments' = <<>>
    /\ final_segments' = <<>>
    /\ current_chapter' = NoChapter
    /\ audiobook' = None
    /\ output_path' = None
    /\ UNCHANGED files

\* if not segments_info: result = self.create_audiobook_from_bytes(...)
CreateSingleFile ==
    /\ cpc = "start"
    /\ cf_segments_info = <<>>
    /\ CallCreateAudiobook(cf_audio_bytes_list, cf_segments_info,
                           DefaultOutputFilename)
    /\ cpc' = "single"
    /\ UNCHANGED <<cf_audio_bytes_list, cf_segments_info, output_prefix,
                   chapter_groups, chapter_order, cf_idx, chapter_files>>
    /\ UNCHANGED <<segVars, cleanVars, ssmlVars, voiceVars, splitVars, runVars>>

\* return [result] if result else []
ReturnSingleFile ==
    /\ cpc = "single"
    /\ apc = "done"
    /\ chapter_files' = IF output_path # None THEN <<output_path>> ELSE <<>>
    /\ cpc' = "done"
    /\ UNCHANGED <<cf_audio_bytes_list, cf_segments_info, output_prefix,
                   chapter_groups, chapter_order, cf_idx>>
    /\ UNCHANGED <<segVars, cleanVars, audioVars, ssmlVars, voiceVars, splitVars, runVars>>

\* the grouping loop, chapter_files = [] and sorted(chapters.keys())
GroupByChapter ==
    /\ cpc = "start"
    /\ cf_segments_info # <<>>
    /\ chapter_groups' = GroupLoop(cf_audio_bytes_list, cf_segments_info, 1, <<>>)
    /\ chapter_order' = sorted(DictKeys(chapter_groups'))
    /\ chapter_files' = <<>>
    /\ cf_idx' = 1
    /\ cpc' = "files"
    /\ UNCHANGED <<cf_audio_bytes_list, cf_segments_info, output_prefix>>
    /\ UNCHANGED <<segVars, cleanVars, audioVars, ssmlVars, voiceVars, splitVars, runVars>>

\* one iteration of the chapter loop up to the call of
\* create_audiobook_from_bytes(chapter_audio_bytes, chapter_info, filename)
CreateChapterFile ==
    /\ cpc = "files"
    /\ cf_idx <= Len(chapter_order)
    /\ LET chapter_num == chapter_order[cf_idx]
           chapter_segments ==
               chapter_groups[DictIndex(chapter_groups, chapter_num)].members
           chapter_audio_bytes ==
               [k \in 1..Len(chapter_segments) |->
                   cf_audio_bytes_list[chapter_segments[k]]]
           chapter_info ==
               [k \in 1..Len(chapter_segments) |->
                   cf_segments_info[chapter_segments[k]]]
       IN  CallCreateAudiobook(chapter_audio_bytes, chapter_info,
                               ChapterFilename(output_prefix, chapter_num))
    /\ cpc' = "wait"
    /\ UNCHANGED <<cf_audio_bytes_list, cf_segments_info, output_prefix,
                   chapter_groups, chapter_order, cf_idx, chapter_files>>
    /\ UNCHANGED <<segVars, cleanVars, ssmlVars, voiceVars, splitVars, runVars>>

\* if output_path: chapter_files.append(output_path)
AppendChapterFile ==
    /\ cpc = "wait"
    /\ apc = "done"
    /\ chapter_files' = IF output_path # None
                        THEN Append(chapter_files, output_path)
                        ELSE chapter_files
    /\ cf_idx' = cf_idx + 1
    /\ cpc' = "files"
    /\ UNCHANGED <<cf_audio_bytes_list, cf_segments_info, output_prefix,
                   chapter_groups, chapter_order>>
    /\ UNCHANGED <<segVars, cleanVars, audioVars, ssmlVars, voiceVars, splitVars, runVars>>

\* return chapter_files
ReturnChapterFiles ==
    /\ cpc = "files"
    /\ cf_idx > Len(chapter_order)
    /\ cpc' = "done"
    /\ UNCHANGED <<cf_audio_bytes_list, cf_segments_info, output_prefix,
                   chapter_groups, chapter_order, cf_idx, chapter_files>>
    /\ UNCHANGED <<segVars, cleanVars, audioVars, ssmlVars, voiceVars, splitVars, runVars>>

(***************************************************************************)
(* TextProcessor.create_ssml                                               *)
(***************************************************************************)
SentenceBreak == " <break time=\"0.8s\"/> "

ParagraphBreak == "<break time=\"1.5s\"/>"

\* Both substitutions are computed position by position, the pieces being
\* joined by halving the range, so that long strings need no deep recursion.
\* The piece that re.sub(r"([.!?])\s+", r'\1 <break time="0.8s"/> ', s)
\* writes for position i: a terminator followed by whitespace keeps itself
\* and gets the break, and the whitespace run that follows it is consumed.
SentenceBreakPiece(s, i) ==
    LET before == SkipSpacesBack(s, i)
    IN  IF IsSpace(Ch(s, i))
        THEN IF before >= 1 /\ IsTerminator(Ch(s, before)) THEN "" ELSE Ch(s, i)
        ELSE IF IsTerminator(Ch(s, i)) /\ i < Len(s) /\ IsSpace(Ch(s, i + 1))
             THEN Ch(s, i) \o SentenceBreak
             ELSE Ch(s, i)

RECURSIVE AddSentenceBreaks(_, _, _)
AddSentenceBreaks(s, lo, hi) ==
    IF lo > hi THEN ""
    ELSE IF lo = hi THEN SentenceBreakPiece(s, lo)
         ELSE LET mid == (lo + hi) \div 2
              IN  AddSentenceBreaks(s, lo, mid) \o AddSentenceBreaks(s, mid + 1, hi)

\* last index in first..last of a newline, 0 if none
RECURSIVE LastNewline(_, _, _)
LastNewline(s, first, last) ==
    IF last < first THEN 0
    ELSE IF Ch(s, last) = "\n" THEN last
         ELSE LastNewline(s, first, last - 1)

\* The piece that re.sub(r"\n\s*\n", '<break time="1.5s"/>', s) writes for
\* position i: in a whitespace run with two newlines or more, the stretch
\* from its first newline to its last one is replaced by one break.
ParagraphBreakPiece(s, i) ==
    IF ~IsSpace(Ch(s, i)) THEN Ch(s, i)
    ELSE LET run_first == SkipSpacesBack(s, i) + 1
             run_last == SkipSpaces(s, i) - 1
             opening == FindNewline(s, run_first)
             closing == LastNewline(s, run_first, run_last)
         IN  IF closing = 0 \/ opening = closing \/ i < opening \/ i > closing
             THEN Ch(s, i)
             ELSE IF i = opening THEN ParagraphBreak ELSE ""

RECURSIVE AddParagraphBreaks(_, _, _)
AddParagraphBreaks(s, lo, hi) ==
    IF lo > hi THEN ""
    ELSE IF lo = hi THEN ParagraphBreakPiece(s, lo)
         ELSE LET mid == (lo + hi) \div 2
              IN  AddParagraphBreaks(s, lo, mid)
                      \o AddParagraphBreaks(s, mid + 1, hi)

create_ssml(t, pauses) ==
    LET wrapped == "<speak>" \o t \o "</speak>"
        with_breaks == AddSentenceBreaks(wrapped, 1, Len(wrapped))
    IN  IF pauses
        THEN AddParagraphBreaks(with_breaks, 1, Len(with_breaks))
        ELSE wrapped

\* len(s[lo..hi].encode("utf-8"))
RECURSIVE EncodedSize(_, _, _)
EncodedSize(s, lo, hi) ==
    IF lo > hi THEN 0
    ELSE IF lo = hi THEN Utf8Len(Ch(s, lo))
         ELSE LET mid == (lo + hi) \div 2
              IN  EncodedSize(s, lo, mid) + EncodedSize(s, mid + 1, hi)

\* texts given to clean_text before SSML is built from the result: the
\* sampled sentences, and texts of several sentences, numbers and paragraphs
SsmlSamples ==
    CleanSamples
        \cup {"Oi. Ab! x 5?", "a.\n\nB 5. 12!", "Dr. Y. obs. a!  B?"}

SsmlIdle == ssml_text = "" /\ ssml_add_pauses = FALSE /\ ssml = None

SsmlInit ==
    /\ ssml_text \in {clean_text(x) : x \in SsmlSamples}
    /\ ssml_add_pauses \in BOOLEAN
    /\ ssml = None

\* ssml = self.text_processor.create_ssml(segment.text)
CreateSsml ==
    /\ ssml = None
    /\ ssml' = create_ssml(ssml_text, ssml_add_pauses)
    /\ UNCHANGED <<ssml_text, ssml_add_pauses>>
    /\ UNCHANGED <<segVars, cleanVars, audioVars, chapterVars, runVars, voiceVars, splitVars>>

(***************************************************************************)
(* TTSEngine.batch_synthesize and AudiobookGenerator.generate_audiobook    *)
(***************************************************************************)
CHUNK_SIZE == 3500

\* the path the generate command is given
InputFile == "book.txt"

\* Path(input_filename).stem of a name with one extension
Stem(filename) ==
    LET dot == CHOOSE k \in 1..Len(filename) : Ch(filename, k) = "."
    IN  SubSeq(filename, 1, dot - 1)

\* FileHandler.create_output_filename
create_output_filename(input_filename, suffix) ==
    LET base_name == Stem(input_filename)
    IN  IF suffix # "" THEN base_name \o "_" \o suffix \o ".mp3"
        ELSE base_name \o ".mp3"

\* output_name.replace(".mp3", "") from index i on
RECURSIVE RemoveMp3(_, _)
RemoveMp3(s, i) ==
    IF i > Len(s) THEN ""
    ELSE IF i + 3 <= Len(s) /\ SubSeq(s, i, i + 3) = ".mp3"
         THEN RemoveMp3(s, i + 4)
         ELSE Ch(s, i) \o RemoveMp3(s, i + 1)

\* len(s[lo..hi].split()): the positions where a word starts
RECURSIVE WordCount(_, _, _)
WordCount(s, lo, hi) ==
    IF lo > hi THEN 0
    ELSE IF lo = hi
         THEN IF ~IsSpace(Ch(s, lo)) /\ (lo = 1 \/ IsSpace(Ch(s, lo - 1)))
              THEN 1 ELSE 0
         ELSE LET mid == (lo + hi) \div 2
              IN  WordCount(s, lo, mid) + WordCount(s, mid + 1, hi)

\* TextProcessor.get_segment_info
get_segment_info(segment) ==
    [chapter |-> segment.chapter_number,
     paragraph |-> segment.paragraph_number,
     sentence |-> segment.sentence_number,
     type |-> segment.segment_type,
     length |-> Len(segment.text),
     word_count |-> WordCount(segment.text, 1, Len(segment.text))]

\* segments[:n]
FirstN(seq, n) == IF Len(seq) <= n THEN seq ELSE SubSeq(seq, 1, n)

\* the content of the input file: blank files, one paragraph, two
\* paragraphs, two chapters, and two paragraphs before a second chapter
RunTexts ==
    {"", " \n", "Oi. Ab!", "Oi.\n\nAb!", "x 5?\n1.\nOi. Ab!",
     "Oi.\n\nAb!\n1.\nx 5?"}

\* what the file system holds at InputFile: nothing, a directory, a file
\* that read_file cannot read, a file with text
InputStates == {"missing", "not_a_file", "unreadable", "readable"}

\* response.audio_content of a synthesis call that returns
SynthBytesChoices == {"mp3-a", "mp3-b", CorruptBytes}

\* how a call of synthesize_segment ends: it returns audio, it raises an
\* Exception (GoogleAPIError or any other), or KeyboardInterrupt is raised
\* in it
SynthOutcomes ==
    [kind : {"returned"}, audio : SynthBytesChoices]
        \cup [kind : {"raised", "interrupted"}, audio : {EmptyBytes}]

\* no exception
NoException == "none"

\* no exit status yet
NoExit == -1

RunIdle ==
    /\ input_state = "missing" /\ file_content = ""
    /\ split_chapters = FALSE /\ preview_mode = FALSE /\ rpc = "idle"
    /\ text_content = "" /\ run_segments = <<>> /\ batch_i = 0
    /\ batch_audio_segments = <<>> /\ run_audio_bytes = <<>>
    /\ run_segments_info = <<>> /\ output_files = <<>> /\ tag_i = 0
    /\ run_result = <<>> /\ raised = NoException /\ exit_code = NoExit
    /\ synth_log = <<>> /\ error_log = <<>> /\ metadata_log = <<>>

RunInit ==
    /\ input_state \in InputStates
    /\ file_content \in IF input_state = "readable" THEN RunTexts ELSE {""}
    /\ split_chapters \in BOOLEAN
    /\ preview_mode \in BOOLEAN
    /\ rpc = "read"
    /\ text_content = "" /\ run_segments = <<>> /\ batch_i = 0
    /\ batch_audio_segments = <<>> /\ run_audio_bytes = <<>>
    /\ run_segments_info = <<>> /\ output_files = <<>> /\ tag_i = 0
    /\ run_result = <<>> /\ raised = NoException /\ exit_code = NoExit
    /\ synth_log = <<>> /\ error_log = <<>> /\ metadata_log = <<>>

\* return value: generate_audiobook returns the list value
Return(value) ==
    /\ run_result' = value
    /\ rpc' = "returned"
    /\ UNCHANGED raised

\* raise exception: it leaves generate_audiobook
Raise(exception) ==
    /\ raised' = exception
    /\ rpc' = "raised"
    /\ UNCHANGED run_result

\* reading without the test "if not text_content.strip()"
ReadInput_NoBlankCheck ==
    /\ rpc = "read"
    /\ IF input_state = "missing"
       THEN Raise("FileNotFoundError") /\ UNCHANGED text_content
       ELSE IF input_state = "not_a_file"
       THEN Raise("ValueError") /\ UNCHANGED text_content
       ELSE IF input_state = "unreadable"
       THEN Return(<<>>) /\ UNCHANGED text_content
       ELSE /\ text_content' = file_content
            /\ rpc' = "segment"
            /\ UNCHANGED <<run_result, raised>>
    /\ UNCHANGED <<input_state, file_content, split_chapters, preview_mode,
                   run_segments, batch_i, batch_audio_segments, run_audio_bytes,
                   run_segments_info, output_files, tag_i, exit_code,
                   synth_log, error_log, metadata_log>>
    /\ UNCHANGED <<segVars, cleanVars, audioVars, chapterVars, ssmlVars, voiceVars, splitVars>>

\* text_content = self._read_and_validate_input(input_file)
\* if not text_content: return []
ReadInput ==
    /\ rpc = "read"
    /\ IF input_state = "missing"
       THEN Raise("FileNotFoundError") /\ UNCHANGED text_content
       ELSE IF input_state = "not_a_file"
       THEN Raise("ValueError") /\ UNCHANGED text_content
       ELSE IF input_state = "unreadable" \/ strip(file_content) = ""
       THEN Return(<<>>) /\ UNCHANGED text_content
       ELSE /\ text_content' = file_content
            /\ rpc' = "segment"
            /\ UNCHANGED <<run_result, raised>>
    /\ UNCHANGED <<input_state, file_content, split_chapters, preview_mode,
                   run_segments, batch_i, batch_audio_segments, run_audio_bytes,
                   run_segments_info, output_files, tag_i, exit_code,
                   synth_log, error_log, metadata_log>>
    /\ UNCHANGED <<segVars, cleanVars, audioVars, chapterVars, ssmlVars, voiceVars, splitVars>>

\* entering self.text_processor.create_segments(text_content, Config.CHUNK_SIZE)
CallCreateSegments ==
    /\ rpc = "segment"
    /\ text' = text_content
    /\ max_length' = CHUNK_SIZE
    /\ pc' = "detect"
    /\ chapters' = <<>> /\ ch_idx' = 0 /\ paragraphs' = <<>> /\ para_idx' = 0
    /\ sentences' = <<>> /\ sent_idx' = 0 /\ current_chunk' = ""
    /\ chunk_sentences' = <<>> /\ segments' = <<>> /\ para_log' = <<>>
    /\ rpc' = "segmenting"
    /\ UNCHANGED <<input_state, file_content, split_chapters, preview_mode,
                   text_content, run_segments, batch_i, batch_audio_segments,
                   run_audio_bytes, run_segments_info, output_files, tag_i,
                   run_result, raised, exit_code, synth_log, error_log,
                   metadata_log>>
    /\ UNCHANGED <<cleanVars, audioVars, chapterVars, ssmlVars, voiceVars, splitVars>>

\* the rest of _process_text_to_segments, "if not segments: return []" and
\* entering batch_synthesize: audio_segments = []
TakeSegments ==
    /\ rpc = "segmenting"
    /\ pc = "done"
    /\ run_segments' = IF preview_mode THEN FirstN(segments, 5) ELSE segments
    /\ IF run_segments' = <<>>
       THEN Return(<<>>) /\ UNCHANGED <<batch_i, batch_audio_segments>>
       ELSE /\ batch_i' = 1
            /\ batch_audio_segments' = <<>>
            /\ rpc' = "synthesis"
            /\ UNCHANGED <<run_result, raised>>
    /\ UNCHANGED <<input_state, file_content, split_chapters, preview_mode,
                   text_content, run_audio_bytes, run_segments_info,
                   output_files, tag_i, exit_code, synth_log, error_log,
                   metadata_log>>
    /\ UNCHANGED <<segVars, cleanVars, audioVars, chapterVars, ssmlVars, voiceVars, splitVars>>

\* audio_content = self.synthesize_segment(segment, output_dir);
\* audio_segments.append(audio_content); progress_callback(...)
OnSynthesisReturned(audio_content) ==
    /\ batch_audio_segments' = Append(batch_audio_segments, audio_content)
    /\ batch_i' = batch_i + 1
    /\ UNCHANGED <<error_log, rpc, run_result, raised>>

\* the except branch ending the whole loop: the list built so far is returned
OnSynthesisError_Abort ==
    /\ error_log' = Append(error_log, batch_i - 1)
    /\ batch_i' = Len(run_segments) + 1
    /\ UNCHANGED <<batch_audio_segments, rpc, run_result, raised>>

\* the except branch trying the same segment again
OnSynthesisError_Retry ==
    /\ error_log' = Append(error_log, batch_i - 1)
    /\ UNCHANGED <<batch_i, batch_audio_segments, rpc, run_result, raised>>

\* the except branch without the logger.error line
OnSynthesisError_Silent ==
    /\ batch_audio_segments' = Append(batch_audio_segments, EmptyBytes)
    /\ batch_i' = batch_i + 1
    /\ UNCHANGED <<error_log, rpc, run_result, raised>>

\* except Exception as e: logger.error(f"Failed to synthesize segment {i}: {e}");
\* audio_segments.append(b"")
OnSynthesisError ==
    /\ error_log' = Append(error_log, batch_i - 1)
    /\ batch_audio_segments' = Append(batch_audio_segments, EmptyBytes)
    /\ batch_i' = batch_i + 1
    /\ UNCHANGED <<rpc, run_result, raised>>

\* KeyboardInterrupt handled like an Exception: empty bytes, next segment
OnKeyboardInterrupt_Swallow ==
    /\ batch_audio_segments' = Append(batch_audio_segments, EmptyBytes)
    /\ batch_i' = batch_i + 1
    /\ UNCHANGED <<error_log, rpc, run_result, raised>>

\* KeyboardInterrupt is no Exception: neither batch_synthesize nor
\* _generate_audio_segments nor generate_audiobook catches it
OnKeyboardInterrupt ==
    /\ Raise("KeyboardInterrupt")
    /\ UNCHANGED <<batch_i, batch_audio_segments, error_log>>

\* one iteration of: for i, segment in enumerate(segments), with
\* synthesize_segment building the SSML and calling synthesize_text once
SynthesizeSegment ==
    /\ rpc = "synthesis"
    /\ batch_i <= Len(run_segments)
    /\ \E outcome \in SynthOutcomes :
           /\ synth_log' = Append(synth_log,
                  [segment |-> batch_i,
                   request |-> create_ssml(run_segments[batch_i].text, TRUE),
                   outcome |-> outcome.kind,
                   audio |-> outcome.audio])
           /\ IF outcome.kind = "returned" THEN OnSynthesisReturned(outcome.audio)
              ELSE IF outcome.kind = "raised" THEN OnSynthesisError
              ELSE OnKeyboardInterrupt
    /\ UNCHANGED <<input_state, file_content, split_chapters, preview_mode,
                   text_content, run_segments, run_audio_bytes,
                   run_segments_info, output_files, tag_i, exit_code,
                   metadata_log>>
    /\ UNCHANGED <<segVars, cleanVars, audioVars, chapterVars, ssmlVars, voiceVars, splitVars>>

\* "return audio_segments" indented into the loop body: the list is returned
\* after the first segment
FinishBatch_ReturnInLoop ==
    /\ rpc = "synthesis"
    /\ batch_i > 1
    /\ run_audio_bytes' = batch_audio_segments
    /\ run_segments_info' =
           [k \in 1..Len(run_segments) |-> get_segment_info(run_segments[k])]
    /\ rpc' = "files"
    /\ UNCHANGED <<input_state, file_content, split_chapters, preview_mode,
                   text_content, run_segments, batch_i, batch_audio_segments,
                   output_files, tag_i, run_result, raised, exit_code, synth_log,
                   error_log, metadata_log>>
    /\ UNCHANGED <<segVars, cleanVars, audioVars, chapterVars, ssmlVars, voiceVars, splitVars>>

\* return audio_segments; segments_info of every segment;
\* return (audio_bytes_list, segments_info)
FinishBatch ==
    /\ rpc = "synthesis"
    /\ batch_i > Len(run_segments)
    /\ run_audio_bytes' = batch_audio_segments
    /\ run_segments_info' =
           [k \in 1..Len(run_segments) |-> get_segment_info(run_segments[k])]
    /\ rpc' = "files"
    /\ UNCHANGED <<input_state, file_content, split_chapters, preview_mode,
                   text_content, run_segments, batch_i, batch_audio_segments,
                   output_files, tag_i, run_result, raised, exit_code, synth_log,
                   error_log, metadata_log>>
    /\ UNCHANGED <<segVars, cleanVars, audioVars, chapterVars, ssmlVars, voiceVars, splitVars>>

\* if not output_name.endswith(".mp3"): output_name += ".mp3"
EnsureMp3(name) ==
    IF Len(name) >= 4 /\ SubSeq(name, Len(name) - 3, Len(name)) = ".mp3"
    THEN name ELSE name \o ".mp3"

\* _create_audiobook_files up to the call of create_chapter_files or of
\* create_audiobook_from_bytes
CreateAudiobookFiles ==
    /\ rpc = "files"
    /\ LET output_name ==
               EnsureMp3(create_output_filename(InputFile,
                             IF preview_mode THEN "preview" ELSE ""))
       IN  IF split_chapters
           THEN /\ cf_audio_bytes_list' = run_audio_bytes
                /\ cf_segments_info' = run_segments_info
                /\ output_prefix' = RemoveMp3(output_name, 1)
                /\ cpc' = "start"
                /\ chapter_groups' = <<>> /\ chapter_order' = <<>>
                /\ cf_idx' = 0 /\ chapter_files' = <<>>
                /\ UNCHANGED audioVars
           ELSE /\ CallCreateAudiobook(run_audio_bytes, run_segments_info,
                                       output_name)
                /\ UNCHANGED chapterVars
    /\ rpc' = "assembling"
    /\ UNCHANGED <<input_state, file_content, split_chapters, preview_mode,
                   text_content, run_segments, batch_i, batch_audio_segments,
                   run_audio_bytes, run_segments_info, output_files, tag_i,
                   run_result, raised, exit_code, synth_log, error_log,
                   metadata_log>>
    /\ UNCHANGED <<segVars, cleanVars, ssmlVars, voiceVars, splitVars>>

\* output_files of either call; if output_files: ... else: return []
FilesCreated ==
    /\ rpc = "assembling"
    /\ IF split_chapters THEN cpc = "done" ELSE apc = "done"
    /\ output_files' = IF split_chapters THEN chapter_files
                       ELSE IF output_path # None THEN <<output_path>>
                       ELSE <<>>
    /\ IF output_files' # <<>>
       THEN /\ tag_i' = 1
            /\ rpc' = "tagging"
            /\ UNCHANGED <<run_result, raised>>
       ELSE Return(<<>>) /\ UNCHANGED tag_i
    /\ UNCHANGED <<input_state, file_content, split_chapters, preview_mode,
                   text_content, run_segments, batch_i, batch_audio_segments,
                   run_audio_bytes, run_segments_info, exit_code, synth_log,
                   error_log, metadata_log>>
    /\ UNCHANGED <<segVars, cleanVars, audioVars, chapterVars, ssmlVars, voiceVars, splitVars>>

\* the metadata dict of _add_metadata_and_display_info
Metadata ==
    [title |-> Stem(InputFile), artist |-> "AI Narrator", album |-> "Audiobook",
     genre |-> "Audiobook", language |-> "pt-BR"]

\* one iteration of: for output_file in output_files, add_metadata writing
\* the file again with the tags, or failing and logging the error
AddMetadata ==
    /\ rpc = "tagging"
    /\ tag_i <= Len(output_files)
    /\ LET output_file == output_files[tag_i]
       IN  /\ metadata_log' = Append(metadata_log, output_file)
           /\ \E written \in BOOLEAN :
                  files' = IF written /\ output_file \in DOMAIN files
                           THEN [files EXCEPT ![output_file] =
                                    [clips |-> @.clips, fade_in |-> @.fade_in,
                                     fade_out |-> @.fade_out, tags |-> Metadata]]
                           ELSE files
    /\ tag_i' = tag_i + 1
    /\ UNCHANGED <<audio_bytes_list, segments_info, apc, a_idx, audio_segments,
                   final_segments, current_chapter, audiobook, output_path,
                   output_filename>>
    /\ UNCHANGED <<input_state, file_content, split_chapters, preview_mode, rpc,
                   text_content, run_segments, batch_i, batch_audio_segments,
                   run_audio_bytes, run_segments_info, output_files, run_result,
                   raised, exit_code, synth_log, error_log>>
    /\ UNCHANGED <<segVars, cleanVars, chapterVars, ssmlVars, voiceVars, splitVars>>

\* return output_files
ReturnOutputFiles ==
    /\ rpc = "tagging"
    /\ tag_i > Len(output_files)
    /\ Return(output_files)
    /\ UNCHANGED <<input_state, file_content, split_chapters, preview_mode,
                   text_content, run_segments, batch_i, batch_audio_segments,
                   run_audio_bytes, run_segments_info, output_files, tag_i,
                   exit_code, synth_log, error_log, metadata_log>>
    /\ UNCHANGED <<segVars, cleanVars, audioVars, chapterVars, ssmlVars, voiceVars, splitVars>>

\* the generate command after generate_audiobook: exit status 1 when the
\* list is empty, on KeyboardInterrupt and on any other exception
Exit ==
    /\ rpc \in {"returned", "raised"}
    /\ exit_code' = IF raised = NoException /\ run_result # <<>> THEN 0 ELSE 1
    /\ rpc' = "exited"
    /\ UNCHANGED <<input_state, file_content, split_chapters, preview_mode,
                   text_content, run_segments, batch_i, batch_audio_segments,
                   run_audio_bytes, run_segments_info, output_files, tag_i,
                   run_result, raised, synth_log, error_log, metadata_log>>
    /\ UNCHANGED <<segVars, cleanVars, audioVars, chapterVars, ssmlVars, voiceVars, splitVars>>

(***************************************************************************)
(* Config.get_voice_name and the voice parameters of TTSEngine             *)
(***************************************************************************)
DEFAULT_LANGUAGE_CODE == "pt-BR"

DEFAULT_VOICE_GENDER == "FEMALE"

\* Config.VOICE_OPTIONS
VOICE_OPTIONS ==
    [pt_BR |-> [FEMALE |-> <<"pt-BR-Wavenet-C", "pt-BR-Wavenet-A",
                             "pt-BR-Standard-A">>,
                MALE |-> <<"pt-BR-Wavenet-B", "pt-BR-Standard-B">>],
     en_US |-> [FEMALE |-> <<"en-US-Wavenet-C", "en-US-Wavenet-E",
                             "en-US-Standard-C">>,
                MALE |-> <<"en-US-Wavenet-A", "en-US-Wavenet-D",
                           "en-US-Standard-B">>]]

\* the key of VOICE_OPTIONS for a language code, "" when it has none
LanguageKey(language) ==
    IF language = "pt-BR" THEN "pt_BR"
    ELSE IF language = "en-US" THEN "en_US"
    ELSE ""

\* cls.VOICE_OPTIONS.get(language_code, {}).get(gender, [])
VoicesOf(language, gender) ==
    IF LanguageKey(language) = "" THEN <<>>
    ELSE LET by_gender == VOICE_OPTIONS[LanguageKey(language)]
         IN  IF gender \in DOMAIN by_gender THEN by_gender[gender] ELSE <<>>

\* part in s
Contains(s, part) ==
    \E k \in 1..(Len(s) - Len(part) + 1) : SubSeq(s, k, k + Len(part) - 1) = part

\* get_voice_name without the preference for Wavenet voices
get_voice_name_StandardOnly(language, gender, premium) ==
    LET voices == VoicesOf(language, gender)
        standard_voices == SelectSeq(voices, LAMBDA v : Contains(v, "Standard"))
    IN  IF voices = <<>> THEN "None"
        ELSE IF standard_voices # <<>> THEN standard_voices[1] ELSE voices[1]

\* Config.get_voice_name: the str "None" when no voice is configured
get_voice_name(language, gender, premium) ==
    LET voices == VoicesOf(language, gender)
        wavenet_voices == SelectSeq(voices, LAMBDA v : Contains(v, "Wavenet"))
        standard_voices == SelectSeq(voices, LAMBDA v : Contains(v, "Standard"))
    IN  IF voices = <<>> THEN "None"
        ELSE IF premium /\ wavenet_voices # <<>> THEN wavenet_voices[1]
        ELSE IF standard_voices # <<>> THEN standard_voices[1]
        ELSE voices[1]

\* the language codes and genders given to TTSEngine: the two configured
\* languages, one that is not configured, the three genders of the --voice
\* option, and None for an omitted argument
LanguageChoices == {None, "pt-BR", "en-US", "fr-FR"}

GenderChoices == {None, "FEMALE", "MALE", "NEUTRAL"}

\* the truth value of a str or None
Truthy(value) == value # None /\ value # ""

\* a dict with no entry
EmptyDict == [k \in {} |-> ""]

VoiceIdle ==
    /\ language_arg = None /\ gender_arg = None /\ language_code = None
    /\ voice_gender = None /\ use_premium_voices = TRUE /\ voice_name = None
    /\ vpc = "idle" /\ use_ssml = FALSE /\ voice_params = EmptyDict

VoiceInit ==
    /\ language_arg \in LanguageChoices
    /\ gender_arg \in GenderChoices
    /\ use_premium_voices \in BOOLEAN
    /\ language_code = None /\ voice_gender = None /\ voice_name = None
    /\ vpc = "new" /\ use_ssml = FALSE /\ voice_params = EmptyDict

\* TTSEngine.__init__
InitEngine ==
    /\ vpc = "new"
    /\ language_code' = IF Truthy(language_arg) THEN language_arg
                        ELSE DEFAULT_LANGUAGE_CODE
    /\ voice_gender' = IF Truthy(gender_arg) THEN gender_arg
                       ELSE DEFAULT_VOICE_GENDER
    /\ voice_name' = get_voice_name(language_code', voice_gender',
                                    use_premium_voices)
    /\ vpc' = "ready"
    /\ UNCHANGED <<language_arg, gender_arg, use_premium_voices, use_ssml,
                   voice_params>>
    /\ UNCHANGED <<segVars, cleanVars, audioVars, chapterVars, ssmlVars,
                   runVars, splitVars>>

\* TTSEngine.synthesize_text up to the VoiceSelectionParams it builds
SynthesizeText ==
    /\ vpc = "ready"
    /\ \E ssml_flag \in BOOLEAN : use_ssml' = ssml_flag
    /\ voice_params' =
           [k \in {"language_code", "ssml_gender"}
                    \cup (IF Truthy(voice_name) THEN {"name"} ELSE {}) |->
               IF k = "language_code" THEN language_code
               ELSE IF k = "ssml_gender" THEN voice_gender
               ELSE voice_name]
    /\ vpc' = "synthesized"
    /\ UNCHANGED <<language_arg, gender_arg, language_code, voice_gender,
                   use_premium_voices, voice_name>>
    /\ UNCHANGED <<segVars, cleanVars, audioVars, chapterVars, ssmlVars,
                   runVars, splitVars>>

(***************************************************************************)
(* TextProcessor._basic_sentence_split called on its own                   *)
(***************************************************************************)
\* a sampled paragraph has at most MaxSplitLen characters
MaxSplitLen == 3

SplitAlphabet == {"a", "B", " ", ".", "!", "?"}

RECURSIVE SplitStringsUpTo(_)
SplitStringsUpTo(n) ==
    IF n = 0 THEN {""}
    ELSE LET shorter == SplitStringsUpTo(n - 1)
         IN  shorter \cup {s \o c : s \in shorter, c \in SplitAlphabet}

\* sampled paragraphs: every short string over the alphabet, and paragraphs
\* of several sentences
SplitSamples ==
    SplitStringsUpTo(MaxSplitLen)
        \cup {"Oi. Ab!", "Hello world. Second sentence.", "a...  b", "um dois"}

SplitIdle ==
    /\ split_text = "" /\ spc = "idle" /\ split_result = <<>>

SplitInit ==
    /\ split_text \in SplitSamples
    /\ spc = "call"
    /\ split_result = <<>>

\* return self._basic_sentence_split(text)
BasicSentenceSplit ==
    /\ spc = "call"
    /\ split_result' = basic_sentence_split(split_text)
    /\ spc' = "returned"
    /\ UNCHANGED split_text
    /\ UNCHANGED <<segVars, cleanVars, audioVars, chapterVars, ssmlVars, runVars,
                   voiceVars>>

(***************************************************************************)
(* Specifications                                                          *)
(***************************************************************************)
\* TextProcessor.create_segments on every text and max_length
Init == SegInit /\ CleanIdle /\ AudioIdle /\ ChapterIdle /\ SsmlIdle /\ RunIdle
    /\ VoiceIdle /\ SplitIdle

Next ==
    \/ DetectChapters
    \/ BeginChapter
    \/ BeginParagraph
    \/ ProcessSentence
    \/ EndParagraph
    \/ EndChapter
    \/ ReturnSegments

Spec == Init /\ [][Next]_vars

\* TextProcessor.clean_text applied repeatedly to every sampled sentence
InitClean == SegIdle /\ CleanInit /\ AudioIdle /\ ChapterIdle /\ SsmlIdle /\ RunIdle
    /\ VoiceIdle /\ SplitIdle

NextClean == CleanAgain

SpecClean == InitClean /\ [][NextClean]_vars

\* AudioProcessor.create_audiobook_from_bytes on every audio list and metadata
InitAudio == SegIdle /\ CleanIdle /\ AudioInit /\ ChapterIdle /\ SsmlIdle /\ RunIdle
    /\ VoiceIdle /\ SplitIdle

NextAudio ==
    \/ DecodeSegment
    \/ ReturnNone
    \/ BeginChapterBreaks
    \/ AddSegment
    \/ ExportAudiobook

SpecAudio == InitAudio /\ [][NextAudio]_vars

\* AudioProcessor.create_chapter_files on every audio list and metadata
InitChapters == SegIdle /\ CleanIdle /\ AudioIdle /\ ChapterInit /\ SsmlIdle /\ RunIdle
    /\ VoiceIdle /\ SplitIdle

NextChapters ==
    \/ CreateSingleFile
    \/ ReturnSingleFile
    \/ GroupByChapter
    \/ CreateChapterFile
    \/ AppendChapterFile
    \/ ReturnChapterFiles
    \/ DecodeSegment
    \/ ReturnNone
    \/ BeginChapterBreaks
    \/ AddSegment
    \/ ExportAudiobook

SpecChapters == InitChapters /\ [][NextChapters]_vars

\* TextProcessor.create_ssml on every cleaned sample
InitSsml == SegIdle /\ CleanIdle /\ AudioIdle /\ ChapterIdle /\ SsmlInit /\ RunIdle
    /\ VoiceIdle /\ SplitIdle

NextSsml == CreateSsml

SpecSsml == InitSsml /\ [][NextSsml]_vars

\* the generate command on every input file, with and without chapter
\* files and preview
InitRun == SegIdle /\ CleanIdle /\ AudioIdle /\ ChapterIdle /\ SsmlIdle /\ RunInit
    /\ VoiceIdle /\ SplitIdle

NextRun ==
    \/ ReadInput
    \/ CallCreateSegments
    \/ DetectChapters
    \/ BeginChapter
    \/ BeginParagraph
    \/ ProcessSentence
    \/ EndParagraph
    \/ EndChapter
    \/ ReturnSegments
    \/ TakeSegments
    \/ SynthesizeSegment
    \/ FinishBatch
    \/ CreateAudiobookFiles
    \/ GroupByChapter
    \/ CreateChapterFile
    \/ AppendChapterFile
    \/ ReturnChapterFiles
    \/ DecodeSegment
    \/ ReturnNone
    \/ BeginChapterBreaks
    \/ AddSegment
    \/ ExportAudiobook
    \/ FilesCreated
    \/ AddMetadata
    \/ ReturnOutputFiles
    \/ Exit

SpecRun == InitRun /\ [][NextRun]_vars

\* TTSEngine built for every language, gender and premium flag, then asked
\* to synthesize
InitVoice == SegIdle /\ CleanIdle /\ AudioIdle /\ ChapterIdle /\ SsmlIdle /\ RunIdle
    /\ VoiceInit /\ SplitIdle

NextVoice ==
    \/ InitEngine
    \/ SynthesizeText

SpecVoice == InitVoice /\ [][NextVoice]_vars

\* TextProcessor._basic_sentence_split applied to every sampled paragraph
InitSplit == SegIdle /\ CleanIdle /\ AudioIdle /\ ChapterIdle /\ SsmlIdle /\ RunIdle
    /\ VoiceIdle /\ SplitInit

NextSplit == BasicSentenceSplit

SpecSplit == InitSplit /\ [][NextSplit]_vars

(***************************************************************************)
(* Properties of the segmentation engine (specification Spec)              *)
(***************************************************************************)
\* the segments emitted for chapter c, paragraph p, in output order
SegmentsOf(c, p) ==
    SelectSeq(segments,
              LAMBDA g : g.chapter_number = c /\ g.paragraph_number = p)

\* the cleaned sentences first..last of a logged paragraph, joined by spaces
CleanedJoin(e, first, last) ==
    JoinWith(SubSeq(e.cleaned, first, last), " ")

\* the number of sentences folded into the first k segments of segs
RECURSIVE SentencesBefore(_, _)
SentencesBefore(segs, k) ==
    IF k = 0 THEN 0 ELSE SentencesBefore(segs, k - 1) + segs[k].sentence_number

\* C1: detect_chapters numbers the chapters it returns 1, 2, ..., k in
\* detection order, whatever numerals the headings carry.
C1_ChaptersNumberedFromOne ==
    pc # "detect" => \A k \in 1..Len(chapters) : chapters[k][1] = k

\* C2: every segment create_segments produces has an estimated markup size of
\* at most the limit, or consists of exactly one sentence.
C2_ChunkBoundByEstimate ==
    \A k \in 1..Len(segments) :
        \/ estimate_ssml_size(segments[k].text) <= max_length
        \/ segments[k].sentence_number = 1

\* C3: for every paragraph, the texts of its segments joined in output order
\* by single spaces equal the cleaned sentences of the paragraph joined in
\* source order by single spaces.
C3_OrderPreserved ==
    pc = "done" =>
        \A j \in 1..Len(para_log) :
            LET e == para_log[j]
                segs == SegmentsOf(e.chapter_number, e.paragraph_number)
            IN  JoinWith([k \in 1..Len(segs) |-> segs[k].text], " ")
                    = CleanedJoin(e, 1, Len(e.sentences))

C3_Witness ==
    /\ pc = "done"
    /\ \E j \in 1..Len(para_log) :
           /\ Len(para_log[j].sentences) >= 3
           /\ Len(SegmentsOf(para_log[j].chapter_number,
                             para_log[j].paragraph_number)) >= 2

\* C4: in the segment sequence chapter_number never decreases, the pairs
\* (chapter_number, paragraph_number) never decrease lexicographically, and
\* paragraph_number drops, and then to 1, only where chapter_number increases.
C4_ChapterMonotonic ==
    \A k \in 1..(Len(segments) - 1) :
        LET g == segments[k]
            h == segments[k + 1]
        IN  /\ g.chapter_number <= h.chapter_number
            /\ g.chapter_number = h.chapter_number
                   => g.paragraph_number <= h.paragraph_number
            /\ h.paragraph_number < g.paragraph_number
                   => g.chapter_number < h.chapter_number /\ h.paragraph_number = 1

C4_Witness ==
    /\ pc = "done"
    /\ \E k \in 1..(Len(segments) - 1) :
           /\ segments[k].paragraph_number = 2
           /\ segments[k + 1].paragraph_number = 1
           /\ segments[k].chapter_number < segments[k + 1].chapter_number

\* C5: the chunk buffer is empty when a paragraph starts, and every segment
\* is made of consecutive sentences of the one paragraph that its
\* chapter_number and paragraph_number name.
C5_NoSegmentSpansParagraphs ==
    /\ (pc = "sentence" /\ sent_idx = 1) => current_chunk = ""
    /\ pc = "done" =>
           \A k \in 1..Len(segments) :
               \E j \in 1..Len(para_log) :
                   LET e == para_log[j]
                       n == Len(e.sentences)
                       m == segments[k].sentence_number
                   IN  /\ e.chapter_number = segments[k].chapter_number
                       /\ e.paragraph_number = segments[k].paragraph_number
                       /\ m >= 1
                       /\ \E first \in 1..(n - m + 1) :
                              segments[k].text = CleanedJoin(e, first, first + m - 1)

C5_Witness ==
    /\ pc = "sentence" /\ sent_idx = 1
    /\ Len(para_log) >= 2
    /\ Len(segments) >= 1
    /\ segments[Len(segments)].chapter_number = chapters[ch_idx][1]
    /\ segments[Len(segments)].paragraph_number = para_idx - 1

\* C6: every sentence is in exactly one segment, whole: the segments of a
\* paragraph hold consecutive runs of its cleaned sentences that together are
\* all of them, and a paragraph of a single sentence yields exactly one
\* segment holding that cleaned sentence, however long it is.
C6_SentencesNeverSplitOrDropped ==
    pc = "done" =>
        \A j \in 1..Len(para_log) :
            LET e == para_log[j]
                segs == SegmentsOf(e.chapter_number, e.paragraph_number)
            IN  /\ SentencesBefore(segs, Len(segs)) = Len(e.sentences)
                /\ \A k \in 1..Len(segs) :
                       /\ segs[k].sentence_number >= 1
                       /\ segs[k].text =
                              CleanedJoin(e, SentencesBefore(segs, k - 1) + 1,
                                          SentencesBefore(segs, k))
                /\ Len(e.cleaned) = Len(e.sentences)
                /\ Len(e.sentences) = 1 =>
                       /\ Len(segs) = 1
                       /\ segs[1].text = clean_text(e.sentences[1])

C6_Witness ==
    /\ pc = "done"
    /\ \E j \in 1..Len(para_log) :
           /\ Len(para_log[j].cleaned) = 1
           /\ Len(para_log[j].cleaned[1]) > max_length
           /\ estimate_ssml_size(para_log[j].cleaned[1]) > max_length
    /\ \E j \in 1..Len(para_log) :
           /\ Len(para_log[j].cleaned) >= 2
           /\ \E k \in 1..Len(para_log[j].cleaned) :
                  Len(para_log[j].cleaned[k]) > max_length

\* C10: on the empty string and on whitespace-only text detect_chapters
\* returns the one chapter (1, text) and create_segments returns no segment.
C10_BlankTextNoSegments ==
    (pc = "done" /\ strip(text) = "") =>
        /\ chapters = << <<1, text>> >>
        /\ segments = <<>>

C10_Witness ==
    pc = "done" /\ strip(text) = "" /\ Len(text) >= 3 /\ segments = <<>>

\* the lines of t that are not blank, each stripped, in their order
NonBlankLines(t) ==
    LET lines == SplitLines(t)
    IN  SelectSeq([k \in 1..Len(lines) |-> strip(lines[k])],
                  LAMBDA line : line # "")

\* no line of the text is a chapter heading
NoHeadingLine ==
    \A k \in 1..Len(NonBlankLines(text)) :
        ~IsChapterHeading(NonBlankLines(text)[k])

\* C20: on a text with no heading line detect_chapters returns exactly one
\* chapter, numbered 1, whose body holds every non-blank line of the text in
\* the original order.
C20_NoHeadingOneChapter ==
    (pc # "detect" /\ NoHeadingLine) =>
        /\ Len(chapters) = 1
        /\ chapters[1][1] = 1
        /\ NonBlankLines(chapters[1][2]) = NonBlankLines(text)

C20_Witness ==
    /\ pc = "done"
    /\ NoHeadingLine
    /\ Len(NonBlankLines(text)) >= 3
    /\ \E k \in 1..Len(SplitLines(text)) : strip(SplitLines(text)[k]) = ""
    /\ Len(chapters) = 1

(***************************************************************************)
(* Properties of clean_text (specification SpecClean)                      *)
(***************************************************************************)
\* C7: clean_text is idempotent: cleaning a cleaned sentence changes nothing.
C7_CleanIdempotent ==
    clean_passes >= 2 => clean_last = clean_first

(***************************************************************************)
(* Properties of the audio assembly (specification SpecAudio)              *)
(***************************************************************************)
\* every entry of audio_bytes_list decodes and has its own metadata
AllDecodeWithInfo ==
    /\ Len(audio_bytes_list) >= 1
    /\ Len(segments_info) = Len(audio_bytes_list)
    /\ \A k \in 1..Len(audio_bytes_list) :
           audio_bytes_list[k] # EmptyBytes /\ ~DecodeRaises(audio_bytes_list[k])

\* the clips of the stream the claim describes for entries 1..k: the
\* normalized audio of each entry after the inter-segment pause, with one
\* chapter pause more where the chapter number changes
RECURSIVE ExpectedClips(_)
ExpectedClips(k) ==
    IF k = 0 THEN <<>>
    ELSE LET clip == [kind |-> "audio", src |-> audio_bytes_list[k],
                      normalized |-> TRUE]
             pause == [kind |-> "silence", ms |-> PAUSE_BETWEEN_SENTENCES]
             chapter_pause == [kind |-> "silence", ms |-> PAUSE_BETWEEN_CHAPTERS]
         IN  IF k = 1 THEN <<clip>>
             ELSE IF ChapterOf(segments_info[k]) # ChapterOf(segments_info[k - 1])
                  THEN ExpectedClips(k - 1) \o <<pause, chapter_pause, pause, clip>>
                  ELSE ExpectedClips(k - 1) \o <<pause, clip>>

\* C8: with metadata for every segment and every segment decoding, the
\* exported stream has exactly one chapter pause between each two consecutive
\* segments whose chapter numbers differ, and none anywhere else.
C8_ChapterPauseWhereChapterChanges ==
    (apc = "done" /\ AllDecodeWithInfo) =>
        /\ output_path # None
        /\ output_path \in DOMAIN files
        /\ files[output_path].clips = ExpectedClips(Len(audio_bytes_list))

C8_Witness ==
    /\ apc = "done"
    /\ AllDecodeWithInfo
    /\ Len(audio_bytes_list) = 3
    /\ [k \in 1..3 |-> ChapterOf(segments_info[k])] = <<1, 1, 2>>
    /\ output_path \in DOMAIN files

\* C9: assembling an empty list of segment audios produces an output
\* artifact, a short silence of fixed duration.
C9_EmptyListYieldsSilence ==
    (apc = "done" /\ audio_bytes_list = <<>>) =>
        /\ output_path # None
        /\ output_path \in DOMAIN files
        /\ files[output_path].clips = add_silence(1000)

\* the entries 1..k of audio_bytes_list that are not empty and decode
ValidBytes(k) ==
    SelectSeq(SubSeq(audio_bytes_list, 1, k),
              LAMBDA b : b # EmptyBytes /\ ~DecodeRaises(b))

\* the source bytes of the audio clips of a stream, in stream order
AudioSources(clips) ==
    LET audio == SelectSeq(clips, LAMBDA c : c.kind = "audio")
    IN  [k \in 1..Len(audio) |-> audio[k].src]

\* C11: an empty segment and a segment whose decoding raises are skipped and
\* the loop goes on to the end of the list: the decoded segments are the
\* valid entries in their input order, and so is the audio of the exported
\* stream, which is produced whenever one entry is valid.
C11_BadSegmentsSkippedInOrder ==
    /\ apc = "decode" =>
           AudioSources([k \in 1..Len(audio_segments) |-> audio_segments[k][1]])
               = ValidBytes(a_idx - 1)
    /\ apc \in {"breaks", "done"} =>
           AudioSources([k \in 1..Len(audio_segments) |-> audio_segments[k][1]])
               = ValidBytes(Len(audio_bytes_list))
    /\ (apc = "done" /\ ValidBytes(Len(audio_bytes_list)) # <<>>) =>
           /\ output_path # None
           /\ output_path \in DOMAIN files
           /\ AudioSources(files[output_path].clips)
                  = ValidBytes(Len(audio_bytes_list))

C11_Witness ==
    /\ apc = "done"
    /\ audio_bytes_list = <<"mp3-b", CorruptBytes, "mp3-a">>
    /\ output_path \in DOMAIN files
    /\ AudioSources(files[output_path].clips) = <<"mp3-b", "mp3-a">>

(***************************************************************************)
(* Properties of the chapter files (specification SpecChapters)            *)
(***************************************************************************)
\* the chapter numbers of the segments create_chapter_files was given, a
\* segment being a metadata entry that has its audio entry
ChapterNumbers ==
    LET n == IF Len(cf_segments_info) <= Len(cf_audio_bytes_list)
             THEN Len(cf_segments_info) ELSE Len(cf_audio_bytes_list)
    IN  [k \in 1..n |-> ChapterOf(cf_segments_info[k])]

\* the distinct members of a sequence in the order of their first appearance
RECURSIVE FirstAppearanceOrder(_)
FirstAppearanceOrder(seq) ==
    IF seq = <<>> THEN <<>>
    ELSE LET front == FirstAppearanceOrder(SubSeq(seq, 1, Len(seq) - 1))
             last == seq[Len(seq)]
         IN  IF \E k \in 1..Len(front) : front[k] = last THEN front
             ELSE Append(front, last)

\* chapter c has a segment whose audio is not empty and decodes
HasValidAudio(c) ==
    \E k \in 1..Len(ChapterNumbers) :
        /\ ChapterNumbers[k] = c
        /\ cf_audio_bytes_list[k] # EmptyBytes
        /\ ~DecodeRaises(cf_audio_bytes_list[k])

\* the paths of the files of the chapters of order that have valid audio
FilesInOrder(order) ==
    LET kept == SelectSeq(order, HasValidAudio)
    IN  [k \in 1..Len(kept) |->
            get_output_path(ChapterFilename(output_prefix, kept[k]))]

\* C12 as stated: the per-chapter files are produced in the order in which
\* the chapter numbers first appear in the input, also when the input is not
\* in ascending chapter order.
C12_FilesInFirstAppearanceOrder ==
    (cpc = "done" /\ cf_segments_info # <<>>) =>
        chapter_files = FilesInOrder(FirstAppearanceOrder(ChapterNumbers))

\* C12 amended: the per-chapter files are produced in ascending order of
\* chapter number, whatever the order of the chapter numbers in the input.
C12_FilesInAscendingOrder ==
    (cpc = "done" /\ cf_segments_info # <<>>) =>
        \E order \in SeqsUpTo(1..MaxChapter, MaxChapter) :
            /\ {order[k] : k \in 1..Len(order)}
                   = {ChapterNumbers[k] : k \in 1..Len(ChapterNumbers)}
            /\ \A k \in 1..(Len(order) - 1) : order[k] < order[k + 1]
            /\ chapter_files = FilesInOrder(order)

C12_Witness ==
    /\ cpc = "done"
    /\ ChapterNumbers = <<2, 1, 2>>
    /\ \A c \in {1, 2} : HasValidAudio(c)
    /\ chapter_files = <<"output/chapter_01.mp3", "output/chapter_02.mp3">>

(***************************************************************************)
(* Properties of the SSML markup (specification SpecSsml)                  *)
(***************************************************************************)
\* C19: for every cleaned text the size estimate_ssml_size gives is at least
\* the UTF-8 encoded size of the SSML markup create_ssml builds from it.
C19_EstimateCoversSsml ==
    ssml # None =>
        estimate_ssml_size(ssml_text) >= EncodedSize(ssml, 1, Len(ssml))

C19_Witness ==
    /\ ssml # None
    /\ ssml_add_pauses
    /\ ssml_text = clean_text("Oi. Ab! x 5?")
    /\ Len(ssml) = Len(ssml_text) + 15 + 2 * 21

(***************************************************************************)
(* Properties of a run of the generate command (specification SpecRun)     *)
(***************************************************************************)
\* batch_synthesize has returned its list
BatchReturned ==
    \/ rpc \in {"files", "assembling", "tagging"}
    \/ rpc \in {"returned", "exited"} /\ raised = NoException /\ run_segments # <<>>

\* the number of synthesis calls issued for segment k
Attempts(k) ==
    Cardinality({j \in 1..Len(synth_log) : synth_log[j].segment = k})

\* KeyboardInterrupt was raised in a synthesis call
Interrupted ==
    \E j \in 1..Len(synth_log) : synth_log[j].outcome = "interrupted"

\* the bytes are audio that decodes
ValidAudio(b) == b # EmptyBytes /\ ~DecodeRaises(b)

C15_CancelledRunAssembles ==
    (rpc = "exited" /\ Interrupted) =>
        /\ synth_log[Len(synth_log)].outcome = "interrupted"
        /\ (\E j \in 1..Len(synth_log) : ValidAudio(synth_log[j].audio))
               => DOMAIN files # {}

\* C15 amended: after KeyboardInterrupt arrives during the synthesis stage
\* no new synthesis call is issued and the run is abandoned: nothing is
\* assembled, no output file is produced, generate_audiobook returns nothing
\* and the command exits with status 1.
C15_CancelledRunAborts ==
    Interrupted =>
        /\ synth_log[Len(synth_log)].outcome = "interrupted"
        /\ raised = "KeyboardInterrupt"
        /\ apc = "idle" /\ cpc = "idle"
        /\ DOMAIN files = {}
        /\ run_result = <<>>
        /\ rpc = "exited" => exit_code = 1

C15_Witness ==
    /\ rpc = "exited"
    /\ Len(run_segments) = 3
    /\ Len(synth_log) = 2
    /\ ValidAudio(synth_log[1].audio)
    /\ synth_log[2].outcome = "interrupted"
    /\ exit_code = 1

\* an artifact was produced although the synthesis of a segment failed
PartialSuccess ==
    /\ rpc \in {"returned", "exited"}
    /\ run_result # <<>>
    /\ \E k \in 1..Len(batch_audio_segments) :
           batch_audio_segments[k] = EmptyBytes

\* what generate_audiobook returns for the same input when every segment is
\* synthesized to valid audio: the one file, or the files of all chapters
FullSuccessResult ==
    LET output_name ==
            EnsureMp3(create_output_filename(InputFile,
                          IF preview_mode THEN "preview" ELSE ""))
        numbers == SortAscending({run_segments[k].chapter_number :
                                      k \in 1..Len(run_segments)})
    IN  IF split_chapters
        THEN [k \in 1..Len(numbers) |->
                 get_output_path(ChapterFilename(RemoveMp3(output_name, 1),
                                                 numbers[k]))]
        ELSE <<get_output_path(output_name)>>

\* C16 as stated: the result of generate_audiobook for a partial success
\* differs from the result of the run in which every segment succeeded.
C16_PartialSuccessDistinguishable ==
    PartialSuccess => run_result # FullSuccessResult

\* C16 amended: a partial success is reported as success without any count
\* of missing segments: without chapter files generate_audiobook returns the
\* same list as when every segment succeeded and the command exits with
\* status 0; the failures show only in the error lines batch_synthesize
\* logs, one per failed segment.
C16_PartialSuccessOnlyLogged ==
    /\ (PartialSuccess /\ ~split_chapters) => run_result = FullSuccessResult
    /\ (PartialSuccess /\ rpc = "exited") => exit_code = 0
    /\ (rpc \in {"returned", "exited"} /\ run_result # <<>>
            /\ \A k \in 1..Len(batch_audio_segments) :
                   ValidAudio(batch_audio_segments[k]))
           => run_result = FullSuccessResult
    /\ Len(error_log) =
           Cardinality({j \in 1..Len(synth_log) : synth_log[j].outcome = "raised"})

C16_Witness ==
    /\ rpc = "exited"
    /\ ~split_chapters
    /\ Len(batch_audio_segments) = 3
    /\ batch_audio_segments[2] = EmptyBytes
    /\ run_result = <<"output/book.mp3">>
    /\ exit_code = 0
    /\ Len(error_log) = 1

\* the source text is missing, unreadable, empty or whitespace-only
BadInput ==
    input_state \in {"missing", "not_a_file", "unreadable"}
        \/ strip(file_content) = ""

\* C17: with a missing, unreadable, empty or whitespace-only source text
\* generate_audiobook stops at the input stage: the text is never segmented,
\* no synthesis call is issued and no output file is produced.
C17_BadInputStopsBeforeSynthesis ==
    BadInput =>
        /\ rpc \in {"read", "returned", "raised", "exited"}
        /\ pc = "idle"
        /\ synth_log = <<>>
        /\ DOMAIN files = {}
        /\ run_result = <<>>

C17_Witness ==
    /\ rpc = "exited"
    /\ input_state = "readable"
    /\ file_content = " \n"
    /\ exit_code = 1
    /\ synth_log = <<>>

\* C18: when segments were supplied and none of them has valid audio, no
\* output file is written, create_audiobook_from_bytes returns no path,
\* generate_audiobook returns the empty list and no file is tagged.
C18_NoValidAudioNoOutput ==
    (/\ rpc \in {"returned", "exited"}
     /\ run_audio_bytes # <<>>
     /\ \A k \in 1..Len(run_audio_bytes) : ~ValidAudio(run_audio_bytes[k])) =>
        /\ output_path = None
        /\ DOMAIN files = {}
        /\ run_result = <<>>
        /\ metadata_log = <<>>
        /\ rpc = "exited" => exit_code = 1

C18_Witness ==
    /\ rpc = "exited"
    /\ run_audio_bytes = <<EmptyBytes, CorruptBytes, EmptyBytes>>
    /\ split_chapters
    /\ run_result = <<>>
    /\ exit_code = 1

(***************************************************************************)
(* Properties of the voice selection (specification SpecVoice)             *)
(***************************************************************************)
\* voices[k] is the first voice of the list whose name contains kind
FirstOfKind(voices, k, kind) ==
    /\ Contains(voices[k], kind)
    /\ \A j \in 1..(k - 1) : ~Contains(voices[j], kind)

\* C21: for a language and gender with configured voices get_voice_name
\* returns a voice of their own list, whose name contains the language code:
\* with premium the first Wavenet voice when there is one, otherwise the
\* first Standard voice when there is one.
C21_VoiceFromOwnList ==
    LET voices == VoicesOf(language_code, voice_gender)
        has(kind) == \E j \in 1..Len(voices) : Contains(voices[j], kind)
    IN  (vpc \in {"ready", "synthesized"} /\ voices # <<>>) =>
            \E k \in 1..Len(voices) :
                /\ voice_name = voices[k]
                /\ Contains(voice_name, language_code)
                /\ (use_premium_voices /\ has("Wavenet"))
                       => FirstOfKind(voices, k, "Wavenet")
                /\ (~(use_premium_voices /\ has("Wavenet")) /\ has("Standard"))
                       => FirstOfKind(voices, k, "Standard")

C21_Witness ==
    /\ vpc = "ready"
    /\ language_code = "en-US"
    /\ voice_gender = "MALE"
    /\ use_premium_voices
    /\ voice_name = "en-US-Wavenet-A"

\* C30: when the voice table has no voice for the language and gender, the
\* synthesis call gets no voice name; a name it gets is a voice of the table.
C30_NameOnlyFromTable ==
    vpc = "synthesized" =>
        LET voices == VoicesOf(language_code, voice_gender)
        IN  /\ voices = <<>> => "name" \notin DOMAIN voice_params
            /\ "name" \in DOMAIN voice_params =>
                   \E k \in 1..Len(voices) : voice_params["name"] = voices[k]


(***************************************************************************)
(* Properties of the line placement of detect_chapters (specification Spec) *)
(***************************************************************************)
\* the non-blank lines that are no heading, grouped by the heading that
\* precedes them most closely: the first group holds the lines before any
\* heading, and every heading line opens a new group
RECURSIVE BodyGroups(_, _, _)
BodyGroups(lines, k, groups) ==
    IF k > Len(lines) THEN groups
    ELSE LET line == strip(lines[k])
             n == Len(groups)
         IN  IF line = "" THEN BodyGroups(lines, k + 1, groups)
             ELSE IF IsChapterHeading(line)
             THEN BodyGroups(lines, k + 1, Append(groups, <<>>))
             ELSE BodyGroups(lines, k + 1,
                      [groups EXCEPT ![n] = Append(@, line)])

\* the groups that hold at least one line, in source order
ExpectedBodies(t) ==
    SelectSeq(BodyGroups(SplitLines(t), 1, << <<>> >>), LAMBDA g : g # <<>>)

\* the text has a heading line
HasHeadingLine ==
    \E k \in 1..Len(NonBlankLines(text)) :
        IsChapterHeading(NonBlankLines(text)[k])

\* detect_chapters has just returned
ChaptersDetected == pc = "chapter" /\ ch_idx = 1

\* C22: no chapter body holds a heading line, and every non-blank line that
\* is no heading appears exactly once, in source order, in the body of the
\* chapter opened by the nearest preceding heading (the first chapter when no
\* heading precedes it), so two headings each followed by body text give at
\* least two chapters.
C22_LinesInOwnChapter ==
    ChaptersDetected =>
        /\ \A k \in 1..Len(chapters) :
               \A j \in 1..Len(NonBlankLines(chapters[k][2])) :
                   ~IsChapterHeading(NonBlankLines(chapters[k][2])[j])
        /\ SelectSeq([k \in 1..Len(chapters) |-> NonBlankLines(chapters[k][2])],
                     LAMBDA g : g # <<>>) = ExpectedBodies(text)

(***************************************************************************)
(* Properties of the abbreviation table (specification SpecClean)          *)
(***************************************************************************)
\* the replacement of abbr by full only where abbr starts a word, that is at
\* the start of s or after a character that is no word character
RECURSIVE ReplaceWholeWord(_, _, _, _)
ReplaceWholeWord(s, abbr, full, i) ==
    IF i > Len(s) THEN ""
    ELSE IF /\ i + Len(abbr) - 1 <= Len(s)
            /\ LowerStr(SubSeq(s, i, i + Len(abbr) - 1)) = abbr
            /\ (i = 1 \/ ~IsWordChar(Ch(s, i - 1)))
         THEN full \o ReplaceWholeWord(s, abbr, full, i + Len(abbr))
         ELSE Ch(s, i) \o ReplaceWholeWord(s, abbr, full, i + 1)

RECURSIVE ExpandWholeWords(_, _)
ExpandWholeWords(s, k) ==
    IF k > Len(abbreviations) THEN s
    ELSE ExpandWholeWords(
             ReplaceWholeWord(s, abbreviations[k][1], abbreviations[k][2], 1),
             k + 1)

\* the cleaned text when only whole-word abbreviations are replaced
CleanWholeWords(t) ==
    strip(WrapNumbers(
        ExpandWholeWords(
            SpaceAfterPunctuation(
                FixPunctuation(CollapseWhitespace(t, 1), 1), 1), 1), 1))

\* C23: clean_text replaces an abbreviation of the table only where it is a
\* whole word; its characters at the end or inside of a longer word, as the
\* "ex." of "index.", are left as they are.
C23_AbbreviationsWholeWordOnly ==
    clean_passes >= 1 => clean_first = CleanWholeWords(clean_input)


(***************************************************************************)
(* Properties of the sentence counts (specification Spec)                  *)
(***************************************************************************)
\* C24: sentence_number of every segment is the number of sentences folded
\* into its text and is at least 1: while a paragraph is packed the sentences
\* counted in its closed segments and in the open buffer are exactly the
\* sentences consumed, and the buffer is the join of the sentences it counts;
\* for every finished paragraph the counts of its segments sum to the number of
\* sentences the splitter returned.
C24_SentenceCountsAddUp ==
    /\ \A k \in 1..Len(segments) : segments[k].sentence_number >= 1
    /\ pc = "sentence" =>
           LET e == para_log[Len(para_log)]
               segs == SegmentsOf(e.chapter_number, e.paragraph_number)
               done == IF sent_idx > Len(sentences) THEN Len(sentences)
                       ELSE sent_idx - 1
           IN  /\ SentencesBefore(segs, Len(segs)) + Len(chunk_sentences) = done
               /\ current_chunk =
                      CleanedJoin(e, done - Len(chunk_sentences) + 1, done)
    /\ pc = "done" =>
           \A j \in 1..Len(para_log) :
               LET e == para_log[j]
                   segs == SegmentsOf(e.chapter_number, e.paragraph_number)
               IN  SentencesBefore(segs, Len(segs)) = Len(e.sentences)

C24_Witness ==
    /\ pc = "done"
    /\ \E j \in 1..Len(para_log) :
           LET e == para_log[j]
               segs == SegmentsOf(e.chapter_number, e.paragraph_number)
           IN  /\ Len(e.sentences) = 3
               /\ Len(segs) = 2
               /\ segs[1].sentence_number = 2
               /\ segs[2].sentence_number = 1


(***************************************************************************)
(* Properties of the fallback sentence splitter (specification SpecSplit)  *)
(***************************************************************************)
\* the paragraph with every run of whitespace collapsed into one space and
\* the whitespace at its ends removed
WhitespaceNormalized(t) == strip(CollapseWhitespace(t, 1))

\* C25: _basic_sentence_split returns no empty sentence, and its sentences
\* joined by single spaces are the whitespace-normalized paragraph, with
\* every non-whitespace character, the sentence terminators included.
C25_FallbackSplitKeepsContent ==
    spc = "returned" =>
        /\ \A k \in 1..Len(split_result) : split_result[k] # ""
        /\ JoinWith(split_result, " ") = WhitespaceNormalized(split_text)


(***************************************************************************)
(* Properties of the stage order of generate_audiobook (specification      *)
(* SpecRun)                                                                *)
(***************************************************************************)
\* create_audiobook_from_bytes or create_chapter_files has been entered
AssemblyStarted == apc # "idle" \/ cpc # "idle"

\* the synthesis call of segment k has returned audio or has been recorded as
\* failed, and the batch holds an entry for it
SynthesisCompleted(k) ==
    /\ k <= Len(batch_audio_segments)
    /\ \E j \in 1..Len(synth_log) :
           /\ synth_log[j].segment = k
           /\ synth_log[j].outcome \in {"returned", "raised"}

\* C26: the stages of a run are ordered: no assembly step (decoding,
\* concatenation, export) starts before the synthesis call of every segment
\* has completed, and a file is tagged only after it has been exported.
C26_StagesOrdered ==
    /\ AssemblyStarted =>
           /\ rpc \in {"assembling", "tagging", "returned", "exited"}
           /\ Len(batch_audio_segments) = Len(run_segments)
           /\ \A k \in 1..Len(run_segments) : SynthesisCompleted(k)
    /\ \A k \in 1..Len(metadata_log) : metadata_log[k] \in DOMAIN files

C26_Witness ==
    /\ rpc = "tagging"
    /\ split_chapters
    /\ Len(run_segments) >= 2
    /\ error_log # <<>>
    /\ Len(metadata_log) >= 1
    /\ AssemblyStarted


(***************************************************************************)
(* Properties of the chapter grouping (specification SpecChapters)         *)
(***************************************************************************)
\* the grouping loop of create_chapter_files has run
Grouped == cpc \in {"files", "wait", "done"} /\ cf_segments_info # <<>>

\* the groups that hold index i
GroupsHolding(i) ==
    {g \in 1..Len(chapter_groups) :
        \E m \in 1..Len(chapter_groups[g].members) :
            chapter_groups[g].members[m] = i}

\* a stream holds a pause between chapters
HasChapterPause(clips) ==
    \E k \in 1..Len(clips) :
        clips[k].kind = "silence" /\ clips[k].ms = PAUSE_BETWEEN_CHAPTERS

\* C27: create_chapter_files puts every (audio, metadata) pair into exactly
\* one chapter group, the one of its own chapter number, keeps the input order
\* of the pairs inside a group, and no file it produces for a chapter holds a
\* chapter pause.
C27_PairsGroupedByOwnChapter ==
    /\ Grouped =>
           /\ \A i \in 1..Len(ChapterNumbers) :
                  \E g \in 1..Len(chapter_groups) :
                      /\ GroupsHolding(i) = {g}
                      /\ chapter_groups[g].key = ChapterNumbers[i]
           /\ \A g \in 1..Len(chapter_groups) :
                  LET members == chapter_groups[g].members
                  IN  /\ \A m \in 1..Len(members) :
                             members[m] \in 1..Len(ChapterNumbers)
                      /\ \A m \in 1..(Len(members) - 1) :
                             members[m] < members[m + 1]
    /\ cpc # "idle" =>
           /\ ~HasChapterPause(
                  [k \in 1..Len(final_segments) |-> final_segments[k][1]])
           /\ \A p \in DOMAIN files : ~HasChapterPause(files[p].clips)

C27_Witness ==
    /\ cpc = "done"
    /\ ChapterNumbers = <<1, 2, 1>>
    /\ \A k \in 1..3 : cf_audio_bytes_list[k] \in {"mp3-a", "mp3-b"}
    /\ chapter_groups = <<[key |-> 1, members |-> <<1, 3>>],
                          [key |-> 2, members |-> <<2>>]>>
    /\ Len(AudioSources(files["output/chapter_01.mp3"].clips)) = 2
    /\ Len(AudioSources(files["output/chapter_02.mp3"].clips)) = 1


(***************************************************************************)
(* Properties of the chapter pauses among surviving segments               *)
(* (specification SpecAudio)                                               *)
(***************************************************************************)
\* the indexes 1..k of audio_bytes_list whose entry is not empty and decodes
SurvivorIndexes(k) ==
    SelectSeq([i \in 1..k |-> i],
              LAMBDA i : /\ audio_bytes_list[i] # EmptyBytes
                         /\ ~DecodeRaises(audio_bytes_list[i]))

\* the stream the claim describes for the survivors 1..n: the normalized
\* audio of each survivor after the inter-segment pause, and one chapter pause
\* more where the chapter numbers of two neighbouring survivors differ
RECURSIVE ExpectedSurvivorClips(_, _)
ExpectedSurvivorClips(survivors, n) ==
    IF n = 0 THEN <<>>
    ELSE LET clip == [kind |-> "audio", src |-> audio_bytes_list[survivors[n]],
                      normalized |-> TRUE]
             pause == [kind |-> "silence", ms |-> PAUSE_BETWEEN_SENTENCES]
             chapter_pause == [kind |-> "silence", ms |-> PAUSE_BETWEEN_CHAPTERS]
         IN  IF n = 1 THEN <<clip>>
             ELSE IF ChapterOf(segments_info[survivors[n]])
                         # ChapterOf(segments_info[survivors[n - 1]])
                  THEN ExpectedSurvivorClips(survivors, n - 1)
                           \o <<pause, chapter_pause, pause, clip>>
                  ELSE ExpectedSurvivorClips(survivors, n - 1) \o <<pause, clip>>

\* C28: when entries are empty or fail to decode, every surviving segment
\* keeps the chapter number of the entry it was decoded from: the exported
\* stream has a chapter pause between two neighbouring survivors exactly when
\* their own chapter numbers differ.
C28_SurvivorsKeepOwnChapter ==
    (/\ apc = "done"
     /\ Len(segments_info) = Len(audio_bytes_list)
     /\ SurvivorIndexes(Len(audio_bytes_list)) # <<>>) =>
        /\ output_path \in DOMAIN files
        /\ files[output_path].clips =
               ExpectedSurvivorClips(SurvivorIndexes(Len(audio_bytes_list)),
                   Len(SurvivorIndexes(Len(audio_bytes_list))))


(***************************************************************************)
(* Properties of the chunk length (specification Spec)                     *)
(***************************************************************************)
\* C29: every segment is at most max_length characters long or holds exactly
\* one sentence, and a segment that is closed before its paragraph ends is
\* closed because the next cleaned sentence and one separating space would not
\* fit into max_length characters.
C29_ChunkBoundByLength ==
    /\ \A k \in 1..Len(segments) :
           \/ Len(segments[k].text) <= max_length
           \/ segments[k].sentence_number = 1
    /\ pc = "done" =>
           \A j \in 1..Len(para_log) :
               LET e == para_log[j]
                   segs == SegmentsOf(e.chapter_number, e.paragraph_number)
               IN  \A k \in 1..(Len(segs) - 1) :
                       Len(segs[k].text)
                           + Len(e.cleaned[SentencesBefore(segs, k) + 1]) + 1
                               > max_length

C29_Witness ==
    /\ pc = "done"
    /\ \E j \in 1..Len(para_log) :
           LET e == para_log[j]
               segs == SegmentsOf(e.chapter_number, e.paragraph_number)
           IN  /\ Len(segs) = 2
               /\ segs[1].sentence_number = 2
               /\ Len(segs[1].text) <= max_length
               /\ Len(segs[2].text) > max_length
               /\ segs[2].sentence_number = 1

====
